---------------------------- MODULE Spec2Model ----------------------------
(***************************************************************************)
(* POI normalization and contextual recommendation engine of maps-ai:      *)
(* OSMService (parseOverpassResponse, parseNominatimSearchResponse,        *)
(* determineCategory, ...) and LocationService (enrichLocationContext,     *)
(* categorizeNearbyPlaces, generateRecommendations, analyzeAreaContext),   *)
(* served through the GET /recommendations and GET /search routes, and     *)
(* concurrent enrichLocationContext calls on the shared service instance;  *)
(* the POST /route handler; and, in the frontend, the VoiceInput component *)
(* with its auto-submit timer and App.handleLocationUpdate.                *)
(*                                                                         *)
(* JavaScript values: an optional value (a property that may be undefined  *)
(* or null) is a sequence of length 0 (absent) or 1 (present); a tag       *)
(* dictionary is a function from its keys to strings; an object's identity *)
(* (what Array.prototype.includes compares) is its field ref.              *)
(***************************************************************************)
EXTENDS Integers, Sequences, FiniteSets, TLC

VARIABLES
    pc,               \* where the request is: idle, reverse, overpass, (analyze,) enriched, responded,
                      \* or idle, search, searched
    locationInfo,     \* what getLocationInfo resolved to (absent: null)
    overpassData,     \* the body of the Overpass response (absent: the call failed)
    nearbyPOIs,       \* what getNearbyPOIs resolved to
    enriched,         \* what enrichLocationContext resolved to (absent: not yet)
    hour,             \* new Date().getHours() as read by generateRecommendations
    recommendations,  \* what generateRecommendations returned (absent: not yet)
    userContext,      \* the user context the route builds from the query string
    searchData,       \* the body of the Nominatim search response (absent: the call failed)
    searchResults,    \* what searchLocations resolved to
    calls,            \* the locals of the enrichLocationContext calls in flight, by call
    voice,            \* the VoiceInput component, the recognizer behind it and its submissions
    app,              \* the App component: map markers and the nearby-POI requests it made
    route             \* the POST /route request and its response

vars == <<pc, locationInfo, overpassData, nearbyPOIs, enriched, hour, recommendations,
          userContext, searchData, searchResults, calls, voice, app, route>>

----------------------------------------------------------------------------
(* Bounds of the model *)

\* an Overpass response holds at most MaxElements elements
MaxElements == 2

\* POI lists over every kind of POI hold at most MaxShortPois POIs
MaxShortPois == 2

\* POI lists over the kinds the time-of-day policies tell apart
MaxPois == 3

\* POI lists over the three core kinds (cafe, restaurant, museum)
MaxLongPois == 7

\* POI lists handed to analyzeAreaContext on its own
MaxContextPois == 10

\* a search response holds at most MaxHits entries
MaxHits == 2

\* at most MaxCalls enrichLocationContext calls are in flight together
MaxCalls == 2

----------------------------------------------------------------------------
(* JavaScript helpers *)

None == <<>>

Some(v) == <<v>>

\* tags[k]: undefined when the key is absent
Get(tags, k) == IF k \in DOMAIN tags THEN Some(tags[k]) ELSE None

\* ToBoolean of an optional string: undefined, null and '' are falsy
Truthy(o) == o # None /\ o[1] # ""

\* a || b
OrElse(a, b) == IF Truthy(a) THEN a ELSE b

Min(a, b) == IF a <= b THEN a ELSE b

\* Array.prototype.slice(0, n)
Slice0(s, n) == SubSeq(s, 1, Min(n, Len(s)))

\* String.prototype.includes(sub)
StrIncludes(s, sub) ==
    \E i \in 1..(Len(s) - Len(sub) + 1) : SubSeq(s, i, i + Len(sub) - 1) = sub

\* Array.prototype.includes(x) on an array of strings (SameValueZero)
InList(list, x) == \E i \in DOMAIN list : list[i] = x

\* Array.prototype.includes(poi) on an array of objects: reference identity
IncludesPoi(list, poi) == \E i \in DOMAIN list : list[i].ref = poi.ref

----------------------------------------------------------------------------
(* OSMService: the tagged-node normalizer *)

Digits == <<"0", "1", "2", "3", "4", "5", "6", "7", "8", "9">>

\* the template literal `${n}` of a non-negative integer
RECURSIVE NumToStr(_)
NumToStr(n) ==
    IF n < 10 THEN Digits[n + 1]
    ELSE NumToStr(n \div 10) \o Digits[(n % 10) + 1]

\* Array.prototype.join(sep) of an array of strings
RECURSIVE Join(_, _)
Join(parts, sep) ==
    IF parts = <<>> THEN ""
    ELSE IF Len(parts) = 1 THEN parts[1]
    ELSE parts[1] \o sep \o Join(Tail(parts), sep)

\* `s || undefined` of a string
NonEmptyOrUndefined(s) == IF s = "" THEN None ELSE Some(s)

\* the shop key not renamed to 'shopping'
determineCategory_ShopRaw(tags) ==
    IF Truthy(Get(tags, "amenity")) THEN [main |-> "amenity", sub |-> Get(tags, "amenity")]
    ELSE IF Truthy(Get(tags, "tourism")) THEN [main |-> "tourism", sub |-> Get(tags, "tourism")]
    ELSE IF Truthy(Get(tags, "shop")) THEN [main |-> "shop", sub |-> Get(tags, "shop")]
    ELSE IF Truthy(Get(tags, "leisure")) THEN [main |-> "leisure", sub |-> Get(tags, "leisure")]
    ELSE [main |-> "other", sub |-> None]

\* tourism looked at before amenity
determineCategory_TourismFirst(tags) ==
    IF Truthy(Get(tags, "tourism")) THEN [main |-> "tourism", sub |-> Get(tags, "tourism")]
    ELSE IF Truthy(Get(tags, "amenity")) THEN [main |-> "amenity", sub |-> Get(tags, "amenity")]
    ELSE IF Truthy(Get(tags, "shop")) THEN [main |-> "shopping", sub |-> Get(tags, "shop")]
    ELSE IF Truthy(Get(tags, "leisure")) THEN [main |-> "leisure", sub |-> Get(tags, "leisure")]
    ELSE [main |-> "other", sub |-> None]

determineCategory(tags) ==
    IF Truthy(Get(tags, "amenity")) THEN [main |-> "amenity", sub |-> Get(tags, "amenity")]
    ELSE IF Truthy(Get(tags, "tourism")) THEN [main |-> "tourism", sub |-> Get(tags, "tourism")]
    ELSE IF Truthy(Get(tags, "shop")) THEN [main |-> "shopping", sub |-> Get(tags, "shop")]
    ELSE IF Truthy(Get(tags, "leisure")) THEN [main |-> "leisure", sub |-> Get(tags, "leisure")]
    ELSE [main |-> "other", sub |-> None]

\* the joined string returned as it is, the empty one too
generateDescription_EmptyString(tags) ==
    LET d1 == IF Truthy(Get(tags, "cuisine"))
              THEN <<"Cuisine: " \o tags["cuisine"]>> ELSE <<>>
        d2 == IF Truthy(Get(tags, "description"))
              THEN Append(d1, tags["description"]) ELSE d1
        d3 == IF Truthy(Get(tags, "wikipedia"))
              THEN Append(d2, "Has Wikipedia entry") ELSE d2
    IN  Some(Join(d3, ". "))

generateDescription(tags) ==
    LET d1 == IF Truthy(Get(tags, "cuisine"))
              THEN <<"Cuisine: " \o tags["cuisine"]>> ELSE <<>>
        d2 == IF Truthy(Get(tags, "description"))
              THEN Append(d1, tags["description"]) ELSE d1
        d3 == IF Truthy(Get(tags, "wikipedia"))
              THEN Append(d2, "Has Wikipedia entry") ELSE d2
    IN  NonEmptyOrUndefined(Join(d3, ". "))

\* the street put before the house number
formatAddress_StreetFirst(tags) ==
    LET a1 == IF Truthy(Get(tags, "addr:street"))
              THEN <<tags["addr:street"]>> ELSE <<>>
        a2 == IF Truthy(Get(tags, "addr:housenumber"))
              THEN Append(a1, tags["addr:housenumber"]) ELSE a1
        a3 == IF Truthy(Get(tags, "addr:city"))
              THEN Append(a2, tags["addr:city"]) ELSE a2
        a4 == IF Truthy(Get(tags, "addr:postcode"))
              THEN Append(a3, tags["addr:postcode"]) ELSE a3
    IN  NonEmptyOrUndefined(Join(a4, ", "))

formatAddress(tags) ==
    LET a1 == IF Truthy(Get(tags, "addr:housenumber"))
              THEN <<tags["addr:housenumber"]>> ELSE <<>>
        a2 == IF Truthy(Get(tags, "addr:street"))
              THEN Append(a1, tags["addr:street"]) ELSE a1
        a3 == IF Truthy(Get(tags, "addr:city"))
              THEN Append(a2, tags["addr:city"]) ELSE a2
        a4 == IF Truthy(Get(tags, "addr:postcode"))
              THEN Append(a3, tags["addr:postcode"]) ELSE a3
    IN  NonEmptyOrUndefined(Join(a4, ", "))

\* the callback of data.elements.map: the POI object built from one element,
\* a fresh object (ref) per position
ElementToPoi(element, i) ==
    LET tags == IF element.tags # None THEN element.tags[1] ELSE <<>>
        category == determineCategory(tags)
    IN  [ref |-> i,
         id |-> "osm_" \o NumToStr(element.id),
         name |-> OrElse(OrElse(Get(tags, "name"), Get(tags, "brand")),
                         Some("Unnamed Location"))[1],
         lat |-> element.lat,
         lon |-> element.lon,
         category |-> category.main,
         subcategory |-> category.sub,
         description |-> generateDescription(tags),
         address |-> formatAddress(tags),
         website |-> OrElse(Get(tags, "website"), Get(tags, "contact:website")),
         phone |-> OrElse(Get(tags, "phone"), Get(tags, "contact:phone")),
         openingHours |-> Get(tags, "opening_hours"),
         tags |-> tags]

\* the filter on the placeholder name left out
NamedPoi_KeepAll(poi) == TRUE

NamedPoi(poi) == poi.name # "Unnamed Location"

\* data: the response body, with data.elements absent or an array whose
\* entries are elements or null.  Reading element.tags of a null entry
\* throws a TypeError.
parseOverpassResponse(data) ==
    IF data.elements = None THEN [threw |-> FALSE, value |-> <<>>]
    ELSE LET elements == data.elements[1]
         IN  IF \E i \in DOMAIN elements : elements[i] = None
             THEN [threw |-> TRUE, value |-> <<>>]
             ELSE [threw |-> FALSE,
                   value |-> SelectSeq([i \in DOMAIN elements |->
                                           ElementToPoi(elements[i][1], i)],
                                       NamedPoi)]

\* String.prototype.split(sep) with a separator of one character
RECURSIVE Split(_, _)
Split(s, sep) ==
    IF \A i \in 1..Len(s) : SubSeq(s, i, i) # sep THEN <<s>>
    ELSE LET first == CHOOSE i \in 1..Len(s) :
                          /\ SubSeq(s, i, i) = sep
                          /\ \A j \in 1..(i - 1) : SubSeq(s, j, j) # sep
         IN  <<SubSeq(s, 1, first - 1)>> \o Split(SubSeq(s, first + 1, Len(s)), sep)

\* the value of a string of decimal digits
RECURSIVE DigitsToNum(_)
DigitsToNum(s) ==
    IF Len(s) = 0 THEN 0
    ELSE 10 * DigitsToNum(SubSeq(s, 1, Len(s) - 1))
         + ((CHOOSE d \in 1..10 : Digits[d] = SubSeq(s, Len(s), Len(s))) - 1)

\* parseFloat of a string: the number a string of decimal digits denotes, NaN
\* (the string "NaN" here) for the strings that do not start with a digit
parseFloat(s) ==
    IF Len(s) > 0 /\ \A i \in 1..Len(s) : \E d \in 1..10 : Digits[d] = SubSeq(s, i, i)
    THEN DigitsToNum(s)
    ELSE "NaN"

\* the search-result POI under the id prefix of the tagged-node POIs
HitToPoi_OsmPrefix(item, i) ==
    [ref |-> i,
     id |-> "osm_" \o NumToStr(item.place_id),
     name |-> Split(item.display_name[1], ",")[1],
     lat |-> parseFloat(item.lat),
     lon |-> parseFloat(item.lon),
     category |-> OrElse(item.class, Some("location"))[1],
     subcategory |-> item.type,
     description |-> item.display_name,
     address |-> item.display_name,
     website |-> None,
     phone |-> None,
     openingHours |-> None,
     tags |-> IF item.extratags # None THEN item.extratags[1] ELSE <<>>]

\* the callback of data.map: the POI object built from one search hit, a
\* fresh object (ref) per position; the object literal sets no website,
\* phone or openingHours
HitToPoi(item, i) ==
    [ref |-> i,
     id |-> "nominatim_" \o NumToStr(item.place_id),
     name |-> Split(item.display_name[1], ",")[1],
     lat |-> parseFloat(item.lat),
     lon |-> parseFloat(item.lon),
     category |-> OrElse(item.class, Some("location"))[1],
     subcategory |-> item.type,
     description |-> item.display_name,
     address |-> item.display_name,
     website |-> None,
     phone |-> None,
     openingHours |-> None,
     tags |-> IF item.extratags # None THEN item.extratags[1] ELSE <<>>]

\* the hits without a class left out
parseNominatimSearchResponse_DropUnclassed(data) ==
    IF data.array = None THEN [threw |-> TRUE, value |-> <<>>]
    ELSE LET items == data.array[1]
             Classed(poi) == poi.category # "location"
         IN  IF \E i \in DOMAIN items :
                    items[i] = None \/ items[i][1].display_name = None
             THEN [threw |-> TRUE, value |-> <<>>]
             ELSE [threw |-> FALSE,
                   value |-> SelectSeq([i \in DOMAIN items |-> HitToPoi(items[i][1], i)],
                                       Classed)]

\* data: the response body, an array (whose entries are hits or null) or
\* not an array.  data.map of a body that is no array, item.place_id of a
\* null entry and item.display_name.split of a hit without display_name
\* each throw a TypeError.
parseNominatimSearchResponse(data) ==
    IF data.array = None THEN [threw |-> TRUE, value |-> <<>>]
    ELSE LET items == data.array[1]
         IN  IF \E i \in DOMAIN items :
                    items[i] = None \/ items[i][1].display_name = None
             THEN [threw |-> TRUE, value |-> <<>>]
             ELSE [threw |-> FALSE,
                   value |-> [i \in DOMAIN items |-> HitToPoi(items[i][1], i)]]

----------------------------------------------------------------------------
(* LocationService.categorizeNearbyPlaces *)

\* 'pub' left out of the dining subcategories
DiningSubcategories_NoPub == <<"restaurant", "cafe", "bar", "fast_food">>

DiningSubcategories == <<"restaurant", "cafe", "bar", "pub", "fast_food">>

EmptyCategories ==
    [restaurants |-> <<>>, attractions |-> <<>>, shopping |-> <<>>,
     services |-> <<>>, other |-> <<>>]

\* the body of the forEach callback: the switch on poi.category
PushPoi(categories, poi) ==
    CASE poi.category = "amenity" ->
            IF InList(DiningSubcategories, OrElse(poi.subcategory, Some(""))[1])
            THEN [categories EXCEPT !.restaurants = Append(@, poi)]
            ELSE [categories EXCEPT !.services = Append(@, poi)]
      [] poi.category = "tourism" ->
            [categories EXCEPT !.attractions = Append(@, poi)]
      [] poi.category \in {"shopping", "shop"} ->
            [categories EXCEPT !.shopping = Append(@, poi)]
      [] poi.category = "leisure" ->
            [categories EXCEPT !.attractions = Append(@, poi)]
      [] OTHER ->
            [categories EXCEPT !.other = Append(@, poi)]

RECURSIVE ForEachPush(_, _)
ForEachPush(categories, pois) ==
    IF pois = <<>> THEN categories
    ELSE ForEachPush(PushPoi(categories, Head(pois)), Tail(pois))

categorizeNearbyPlaces(pois) == ForEachPush(EmptyCategories, pois)

----------------------------------------------------------------------------
(* LocationService.generateRecommendations *)

Hours == 0..23

\* the breakfast tag not looked at
MorningFilter_CafeOnly(p) == p.subcategory = Some("cafe")

MorningFilter(p) ==
    p.subcategory = Some("cafe") \/ Get(p.tags, "breakfast") = Some("yes")

\* fast food not taken for lunch
LunchFilter_RestaurantOnly(p) == p.subcategory = Some("restaurant")

LunchFilter(p) ==
    InList(<<"restaurant", "fast_food">>, OrElse(p.subcategory, Some(""))[1])

AfternoonFilter(p) == p.subcategory = Some("cafe")

EveningDiningFilter(p) ==
    InList(<<"restaurant", "bar", "pub">>, OrElse(p.subcategory, Some(""))[1])

\* every attraction taken in the evening
EveningAttractionFilter_All(p) == TRUE

EveningAttractionFilter(p) ==
    \/ /\ Get(p.tags, "opening_hours") # None
       /\ StrIncludes(Get(p.tags, "opening_hours")[1], "24/7")
    \/ p.category = "tourism"

\* the morning starting after 7
TimePolicy_LateMorning(h) ==
    IF h > 7 /\ h <= 10 THEN "morning"
    ELSE IF h >= 11 /\ h <= 14 THEN "midday"
    ELSE IF h >= 15 /\ h <= 18 THEN "afternoon"
    ELSE "evening"

\* the if / else-if chain on the hour
TimePolicy(h) ==
    IF h >= 7 /\ h <= 10 THEN "morning"
    ELSE IF h >= 11 /\ h <= 14 THEN "midday"
    ELSE IF h >= 15 /\ h <= 18 THEN "afternoon"
    ELSE "evening"

\* a cap of 3 on the attractions of the morning
MorningImmediate_WideCap(categorized) ==
    Slice0(SelectSeq(categorized.restaurants, MorningFilter), 3)
    \o Slice0(categorized.attractions, 3)

MorningImmediate(categorized) ==
    Slice0(SelectSeq(categorized.restaurants, MorningFilter), 3)
    \o Slice0(categorized.attractions, 2)

MiddayImmediate(categorized) ==
    Slice0(SelectSeq(categorized.restaurants, LunchFilter), 3)
    \o Slice0(categorized.shopping, 2)

\* the cafes put before the attractions in the afternoon
AfternoonImmediate_CafesFirst(categorized) ==
    Slice0(SelectSeq(categorized.restaurants, AfternoonFilter), 2)
    \o Slice0(categorized.attractions, 3)

AfternoonImmediate(categorized) ==
    Slice0(categorized.attractions, 3)
    \o Slice0(SelectSeq(categorized.restaurants, AfternoonFilter), 2)

EveningImmediate(categorized) ==
    Slice0(SelectSeq(categorized.restaurants, EveningDiningFilter), 3)
    \o Slice0(SelectSeq(categorized.attractions, EveningAttractionFilter), 2)

Immediate(h, categorized) ==
    CASE TimePolicy(h) = "morning" -> MorningImmediate(categorized)
      [] TimePolicy(h) = "midday" -> MiddayImmediate(categorized)
      [] TimePolicy(h) = "afternoon" -> AfternoonImmediate(categorized)
      [] OTHER -> EveningImmediate(categorized)

PolicyCategories(h) ==
    CASE TimePolicy(h) = "morning" -> <<"breakfast", "coffee", "morning attractions">>
      [] TimePolicy(h) = "midday" -> <<"lunch", "shopping", "attractions">>
      [] TimePolicy(h) = "afternoon" -> <<"attractions", "coffee", "culture">>
      [] OTHER -> <<"dinner", "nightlife", "evening attractions">>

PolicyTips(h) ==
    CASE TimePolicy(h) = "morning" -> <<"Perfect time for a coffee and sightseeing!">>
      [] TimePolicy(h) = "midday" -> <<"Great time for lunch and some shopping!">>
      [] TimePolicy(h) = "afternoon" ->
            <<"Perfect time to explore attractions and enjoy a coffee break!">>
      [] OTHER -> <<"Time for dinner and evening entertainment!">>

\* the cap applied before the filter: pois.slice(0, 5).filter(...)
Nearby_SliceFirst(pois, immediate) ==
    LET NotImmediate(poi) == ~IncludesPoi(immediate, poi)
    IN  SelectSeq(Slice0(pois, 5), NotImmediate)

Nearby(pois, immediate) ==
    LET NotImmediate(poi) == ~IncludesPoi(immediate, poi)
    IN  Slice0(SelectSeq(pois, NotImmediate), 5)

\* the preferences, when given, narrowing nearby to the preferred subcategories
generateRecommendations_ByPreference(context, h, pois) ==
    LET categorized == categorizeNearbyPlaces(pois)
        immediate == Immediate(h, categorized)
        Preferred(poi) ==
            \/ context.preferences = None
            \/ InList(context.preferences[1], OrElse(poi.subcategory, Some(""))[1])
    IN  [immediate |-> immediate,
         nearby |-> SelectSeq(Nearby(pois, immediate), Preferred),
         categories |-> PolicyCategories(h),
         tips |-> PolicyTips(h)]

\* context: the userContext argument, which the method never reads; h: the
\* hour it reads from the clock
generateRecommendations(context, h, pois) ==
    LET categorized == categorizeNearbyPlaces(pois)
        immediate == Immediate(h, categorized)
    IN  [immediate |-> immediate,
         nearby |-> Nearby(pois, immediate),
         categories |-> PolicyCategories(h),
         tips |-> PolicyTips(h)]

----------------------------------------------------------------------------
(* LocationService.analyzeAreaContext and enrichLocationContext *)

IsTouristPoi(poi) == poi.category = "tourism"

\* pubs counted among the dining POIs
IsRestaurantPoi_WithPub(poi) ==
    /\ poi.category = "amenity"
    /\ InList(<<"restaurant", "cafe", "bar", "pub">>, OrElse(poi.subcategory, Some(""))[1])

IsRestaurantPoi(poi) ==
    /\ poi.category = "amenity"
    /\ InList(<<"restaurant", "cafe", "bar">>, OrElse(poi.subcategory, Some(""))[1])

\* the address read under the key 'neighborhood'
AddressField_OtherSpelling(info, k) ==
    IF info = None THEN None
    ELSE IF info[1].address = None THEN None
    ELSE Get(info[1].address[1], IF k = "neighbourhood" THEN "neighborhood" ELSE k)

\* locationInfo?.address?.[k]
AddressField(info, k) ==
    IF info = None THEN None
    ELSE IF info[1].address = None THEN None
    ELSE Get(info[1].address[1], k)

\* a tourist area from 3 tourism POIs on
IsTouristArea_AtLeast(touristPOIs) == touristPOIs >= 3

\* if (touristPOIs > 3)
IsTouristArea(touristPOIs) == touristPOIs > 3

\* a dining area from 5 dining POIs on
IsDiningArea_AtLeast(restaurantPOIs) == restaurantPOIs >= 5

\* if (restaurantPOIs > 5)
IsDiningArea(restaurantPOIs) == restaurantPOIs > 5

analyzeAreaContext(info, pois) ==
    LET touristPOIs == Len(SelectSeq(pois, IsTouristPoi))
        restaurantPOIs == Len(SelectSeq(pois, IsRestaurantPoi))
        tourist == IsTouristArea(touristPOIs)
        dining == IsDiningArea(restaurantPOIs)
        s1 == IF tourist
              THEN <<"This appears to be a popular tourist area",
                     "Consider visiting multiple attractions within walking distance">>
              ELSE <<>>
        c1 == IF tourist THEN "tourist" ELSE "residential"
        s2 == IF dining THEN Append(s1, "Great dining options in this area") ELSE s1
        c2 == IF dining THEN "commercial" ELSE c1
        areaName == OrElse(OrElse(OrElse(AddressField(info, "suburb"),
                                         AddressField(info, "neighbourhood")),
                                  AddressField(info, "city")),
                           Some("Unknown Area"))[1]
    IN  [area |-> areaName,
         cityType |-> c2,
         touristArea |-> tourist,
         suggestions |-> s2]

\* what an async method settles as: resolved with a value, or rejected
Resolved(v) == [rejected |-> FALSE, value |-> v]

\* OSMService.getLocationInfo: resolves with the body of the reverse-geocode
\* response, or with null when the request failed (reply absent); its
\* try/catch leaves no path that rejects
getLocationInfo(reply) == Resolved(reply)

\* the failure of the request passed on to the caller
getNearbyPOIs_Rethrow(reply) ==
    IF reply = None THEN [rejected |-> TRUE, value |-> <<>>]
    ELSE LET parsed == parseOverpassResponse(reply[1])
         IN  IF parsed.threw THEN Resolved(<<>>) ELSE Resolved(parsed.value)

\* OSMService.getNearbyPOIs: resolves with the parsed response, or with []
\* when the request failed (reply absent) or parsing threw; its try/catch
\* leaves no path that rejects
getNearbyPOIs(reply) ==
    IF reply = None THEN Resolved(<<>>)
    ELSE LET parsed == parseOverpassResponse(reply[1])
         IN  IF parsed.threw THEN Resolved(<<>>) ELSE Resolved(parsed.value)

\* OSMService.searchLocations: resolves with the parsed response, or with []
\* when the request failed (reply absent) or parsing threw; its try/catch
\* leaves no path that rejects
searchLocations(reply) ==
    IF reply = None THEN Resolved(<<>>)
    ELSE LET parsed == parseNominatimSearchResponse(reply[1])
         IN  IF parsed.threw THEN Resolved(<<>>) ELSE Resolved(parsed.value)

\* the value of the try block of enrichLocationContext once both awaits
\* have resolved
EnrichResult(info, pois) ==
    [locationInfo |-> info,
     nearbyPOIs |-> pois,
     contextualInfo |-> analyzeAreaContext(info, pois)]

\* the value of the catch block of enrichLocationContext
EnrichCatch ==
    [locationInfo |-> None,
     nearbyPOIs |-> <<>>,
     contextualInfo |-> [area |-> "Unknown", cityType |-> "unknown",
                         touristArea |-> FALSE, suggestions |-> <<>>]]

----------------------------------------------------------------------------
(* Upstream responses *)

\* a dictionary from a set of <<key, value>> pairs
Dict(pairs) == [k \in {p[1] : p \in pairs} |-> (CHOOSE p \in pairs : p[1] = k)[2]]

\* the pair of a tag, when the tag is present
Tag(k, o) == IF o = None THEN {} ELSE {<<k, o[1]>>}

\* tag dictionaries of Overpass elements
ElementTags ==
    { Dict({<<"name", "Cafe Roma">>, <<"amenity", "cafe">>, <<"cuisine", "italian">>,
            <<"addr:street", "Main St">>, <<"addr:city", "Rome">>,
            <<"opening_hours", "Mo-Su 24/7">>}),
      Dict({<<"brand", "HSBC">>, <<"amenity", "bank">>, <<"phone", "555">>}),
      Dict({<<"amenity", "restaurant">>, <<"breakfast", "yes">>}),
      Dict({<<"name", "">>, <<"tourism", "museum">>}),
      Dict({<<"name", "City Museum">>, <<"amenity", "">>, <<"tourism", "museum">>,
            <<"wikipedia", "en:City Museum">>}),
      Dict({<<"name", "Old Town">>, <<"amenity", "cafe">>, <<"tourism", "attraction">>}),
      Dict({<<"name", "Book Nook">>, <<"shop", "books">>, <<"leisure", "park">>}),
      Dict({<<"name", "Green Park">>, <<"leisure", "park">>}),
      Dict({<<"name", "Bench">>}),
      Dict({<<"name", "Unnamed Location">>, <<"amenity", "pub">>}),
      Dict({<<"name", "Grand">>, <<"tourism", "hotel">>, <<"shop", "mall">>}),
      Dict({<<"name", "Kiosk">>, <<"shop", "kiosk">>, <<"opening_hours", "">>,
            <<"website", "">>, <<"contact:phone", "">>}),
      Dict({}) }

\* tag dictionaries of named elements with every combination of the four
\* category tags absent, empty or set
ClassifyTags ==
    { Dict({<<"name", "The Spot">>} \cup Tag("amenity", a) \cup Tag("tourism", t)
           \cup Tag("shop", s) \cup Tag("leisure", l)) :
        a \in {None, Some(""), Some("cafe")}, t \in {None, Some(""), Some("museum")},
        s \in {None, Some(""), Some("books")}, l \in {None, Some(""), Some("park")} }

\* tag dictionaries of named elements with every combination of the three
\* description tags absent, empty or set
DescribeTags ==
    { Dict({<<"name", "The Spot">>} \cup Tag("cuisine", c) \cup Tag("description", d)
           \cup Tag("wikipedia", w)) :
        c \in {None, Some(""), Some("italian")},
        d \in {None, Some(""), Some("Family run")},
        w \in {None, Some(""), Some("en:The Spot")} }

\* tag dictionaries of named elements with every combination of the four
\* address tags absent, empty or set
AddressTags ==
    { Dict({<<"name", "The Spot">>} \cup Tag("addr:housenumber", h)
           \cup Tag("addr:street", s) \cup Tag("addr:city", c)
           \cup Tag("addr:postcode", z)) :
        h \in {None, Some(""), Some("12")}, s \in {None, Some(""), Some("Main St")},
        c \in {None, Some(""), Some("Rome")}, z \in {None, Some(""), Some("00100")} }

\* a node: elements of one response have distinct ids
Element(tags, i) == [id |-> 100 + i, lat |-> 41, lon |-> 12, tags |-> tags]

\* what one entry of data.elements can be: null, a node without tags, a node
\* with tags
ElementEntries(i) ==
    {None, Some(Element(None, i))} \cup {Some(Element(Some(t), i)) : t \in ElementTags}

ElementLists ==
    UNION { { e \in [1..n -> UNION {ElementEntries(i) : i \in 1..n}] :
                \A i \in 1..n : e[i] \in ElementEntries(i) } : n \in 0..MaxElements }

\* Overpass response bodies: no elements field (an error document), a list of
\* elements, a single named element of each combination of the category
\* tags, of the description tags and of the address tags
OverpassBodies ==
    {[elements |-> None]}
    \cup {[elements |-> Some(e)] : e \in ElementLists}
    \cup {[elements |-> Some(<<Some(Element(Some(t), 1))>>)] :
              t \in ClassifyTags \cup DescribeTags \cup AddressTags}

\* reverse-geocode response bodies: an error document (no address), addresses
ReverseBodies ==
    { [address |-> None],
      [address |-> Some(Dict({<<"suburb", "Trastevere">>, <<"city", "Rome">>}))],
      [address |-> Some(Dict({<<"road", "Via Appia">>}))] }

\* a search hit: Nominatim gives lat and lon as strings
Hit(i, name, class, type, extratags) ==
    [place_id |-> 100 + i, display_name |-> name, lat |-> "41", lon |-> "12",
     class |-> class, type |-> type, extratags |-> extratags]

\* what one entry of the search response can be: null, a hit without
\* display_name, hits with and without class, type and extratags
HitEntries(i) ==
    { None,
      Some(Hit(i, None, Some("place"), Some("city"), None)),
      Some(Hit(i, Some("Rome, Lazio, Italy"), Some("place"), Some("city"),
               Some(Dict({<<"website", "https://rome.example">>})))),
      Some(Hit(i, Some("Colosseum, Rome"), None, None, None)),
      Some(Hit(i, Some("Trevi"), Some(""), Some("fountain"), None)),
      Some(Hit(i, Some("City Museum, Rome"), Some("tourism"), Some("museum"), None)),
      Some(Hit(i, Some("Via Appia, Rome"), Some("highway"), None, None)) }

HitLists ==
    UNION { { e \in [1..n -> UNION {HitEntries(i) : i \in 1..n}] :
                \A i \in 1..n : e[i] \in HitEntries(i) } : n \in 0..MaxHits }

\* search response bodies: an error document (no array), a list of hits
SearchBodies == {[array |-> None]} \cup {[array |-> Some(e)] : e \in HitLists}

\* the value of req.query.preferences: absent, or a string
QueryPreferences == {None, Some(""), Some("museum"), Some("cafe,park")}

\* the userContext object the route builds: preferences ?
\* preferences.split(',') : undefined
UserContextOf(preferences) ==
    [location |-> [lat |-> 41, lon |-> 12],
     preferences |-> IF Truthy(preferences)
                     THEN Some(Split(preferences[1], ","))
                     ELSE None]

----------------------------------------------------------------------------
(* POI lists the public methods of LocationService are applied to *)

Kind(category, subcategory, tags) ==
    [category |-> category, subcategory |-> subcategory, tags |-> tags]

Cafe == Kind("amenity", Some("cafe"), <<>>)

Restaurant == Kind("amenity", Some("restaurant"), Dict({<<"breakfast", "no">>}))

Museum == Kind("tourism", Some("museum"), <<>>)

\* the kinds the three longest lists are made of
CoreKinds == {Cafe, Restaurant, Museum}

\* the kinds the time-of-day policies tell apart
PolicyKinds ==
    CoreKinds \cup
    { Kind("amenity", Some("bar"), Dict({<<"breakfast", "yes">>})),
      Kind("leisure", Some("park"), Dict({<<"opening_hours", "Mo-Su 24/7">>})),
      Kind("leisure", Some("garden"), Dict({<<"opening_hours", "Mo-Fr 09:00-17:00">>})),
      Kind("shopping", Some("books"), <<>>) }

\* every row of the bucket table, and POIs without a subcategory
AllKinds ==
    PolicyKinds \cup
    { Kind("amenity", Some("pub"), <<>>),
      Kind("amenity", Some("fast_food"), <<>>),
      Kind("amenity", Some("bank"), <<>>),
      Kind("amenity", None, <<>>),
      Kind("shop", Some("supermarket"), <<>>),
      Kind("other", None, <<>>),
      Kind("highway", Some("residential"), <<>>) }

\* kinds analyzeAreaContext counts, and one it does not
ContextKinds == {Cafe, Museum, Kind("amenity", Some("pub"), <<>>)}

\* a POI object of a kind, the i-th object of its list
MkPoi(kind, i) ==
    [ref |-> i, id |-> "osm_" \o NumToStr(i), name |-> "Place",
     lat |-> 41, lon |-> 12,
     category |-> kind.category, subcategory |-> kind.subcategory,
     description |-> None, address |-> None, website |-> None, phone |-> None,
     openingHours |-> Get(kind.tags, "opening_hours"), tags |-> kind.tags]

\* pois is a list of at most max POIs of the given kinds, each a distinct object
PickPois(pois, kinds, max) ==
    \E n \in 0..max : \E f \in [1..n -> kinds] : pois = [i \in 1..n |-> MkPoi(f[i], i)]

----------------------------------------------------------------------------
(* The VoiceInput component: its state, the speech recognizer behind       *)
(* speechService, the auto-submit timer and handleSubmit.  A state update  *)
(* and the effect run it triggers are one step.                            *)

\* a component records and submits at most MaxLog times in all
MaxLog == 4

Spaces == {" "}

\* String.prototype.trim()
RECURSIVE Trim(_)
Trim(s) ==
    IF s = "" THEN ""
    ELSE IF SubSeq(s, 1, 1) \in Spaces THEN Trim(SubSeq(s, 2, Len(s)))
    ELSE IF SubSeq(s, Len(s), Len(s)) \in Spaces THEN Trim(SubSeq(s, 1, Len(s) - 1))
    ELSE s

\* what the recognizer hears: the concatenated transcripts of an event
Utterances == {" ", "cafe nearby "}

\* the messages of a rejected chatAPI.sendVoiceMessage: error.message, or the
\* fallback text for a rejection that is not an Error
SendErrors == {"Network Error", "Failed to process voice input"}

\* the messages recognition.onerror maps event.error to
RecognitionErrors == {"No speech detected", "Network error during speech recognition"}

\* the component's state after mounting (activeInput === 'voice'), with App's
\* isLoading, the recognizer (idle, starting, on, stopping, ended, stopped,
\* failed), the voice message in flight and the log of what the component did
\* (record, autoSend, sendNow, fail)
Mounted ==
    [mounted |-> TRUE, isListening |-> FALSE, transcript |-> "", finalTranscript |-> "",
     error |-> None, isLoading |-> FALSE, timer |-> FALSE, recognition |-> "idle",
     inFlight |-> None, log |-> <<>>]

\* activeInput is null: no VoiceInput is rendered
Unmounted == [Mounted EXCEPT !.mounted = FALSE]

\* speechService.isListening
ServiceIsListening(v) == v.recognition = "on"

\* the effect with dependencies [finalTranscript, isListening, isLoading]:
\* when one of them changed in the commit old -> new, the cleanup clears the
\* timer and the effect arms a new one if its condition holds
AutoSubmitEffect(old, new) ==
    IF <<old.finalTranscript, old.isListening, old.isLoading>>
         # <<new.finalTranscript, new.isListening, new.isLoading>>
    THEN [new EXCEPT !.timer =
             new.finalTranscript # "" /\ ~new.isListening /\ ~new.isLoading]
    ELSE new

\* a render commits the state new after the state old
Commit(old, new) == IF new.mounted THEN AutoSubmitEffect(old, new) ELSE new

\* handleSubmit up to its await, called by the timer or by Send Now
handleSubmit(v, by) ==
    LET textToSubmit == IF v.finalTranscript # "" THEN v.finalTranscript ELSE v.transcript
    IN  IF Trim(textToSubmit) = ""
        THEN [v EXCEPT !.error = Some("No speech detected. Please try again.")]
        ELSE [v EXCEPT !.isLoading = TRUE, !.inFlight = Some(textToSubmit),
                       !.log = Append(v.log, by)]

\* the onResult callback of startListening
OnResult(v, text, isFinal) ==
    IF isFinal THEN [v EXCEPT !.finalTranscript = text, !.transcript = ""]
    ELSE [v EXCEPT !.transcript = text]

\* the onError callback of startListening
OnError(v, message) == [v EXCEPT !.error = Some(message), !.isListening = FALSE]

\* Start Recording (shown while !isListening, disabled while isLoading), up to
\* the await of speechService.startListening: a recognizer still listening is
\* stopped first, and recognition.start() throws on a recognizer that has not
\* ended yet
StartRecordingClick ==
    /\ voice.mounted /\ ~voice.isListening /\ ~voice.isLoading
    /\ voice.recognition # "starting"
    /\ Len(voice.log) < MaxLog
    /\ LET cleared == [voice EXCEPT !.error = None, !.transcript = "", !.finalTranscript = "",
                                    !.log = Append(voice.log, "record")]
           pending == IF ServiceIsListening(voice) THEN "stopping" ELSE voice.recognition
       IN  voice' =
             IF pending = "stopping"
             THEN Commit(voice, [OnError(cleared, "Failed to start speech recognition")
                                    EXCEPT !.recognition = "stopping"])
             ELSE Commit(voice, [cleared EXCEPT !.recognition = "starting"])
    /\ UNCHANGED <<pc, locationInfo, overpassData, nearbyPOIs, enriched, hour, recommendations,
                   userContext, searchData, searchResults, calls, app, route>>

\* recognition.onstart resolves the promise: startListening continues with
\* setIsListening(true)
RecognitionStarts ==
    /\ voice.recognition = "starting"
    /\ voice' = Commit(voice, [voice EXCEPT !.recognition = "on", !.isListening = voice.mounted])
    /\ UNCHANGED <<pc, locationInfo, overpassData, nearbyPOIs, enriched, hour, recommendations,
                   userContext, searchData, searchResults, calls, app, route>>

\* recognition.onresult: the trimmed transcript goes to onResult
RecognitionResult ==
    /\ voice.recognition \in {"on", "stopping"}
    /\ \E heard \in Utterances : \E isFinal \in BOOLEAN :
          voice' = IF voice.mounted
                   THEN Commit(voice, OnResult(voice, Trim(heard), isFinal))
                   ELSE voice
    /\ UNCHANGED <<pc, locationInfo, overpassData, nearbyPOIs, enriched, hour, recommendations,
                   userContext, searchData, searchResults, calls, app, route>>

\* recognition.onend: the service clears its own flag and calls nobody
RecognitionEnds ==
    /\ voice.recognition \in {"on", "stopping"}
    /\ voice' = [voice EXCEPT !.recognition =
                    IF voice.recognition = "on" THEN "ended" ELSE "stopped"]
    /\ UNCHANGED <<pc, locationInfo, overpassData, nearbyPOIs, enriched, hour, recommendations,
                   userContext, searchData, searchResults, calls, app, route>>

\* recognition.onerror: the service clears its flag and calls onError
RecognitionError ==
    /\ voice.recognition \in {"starting", "on"}
    /\ \E message \in RecognitionErrors :
          LET ended == [voice EXCEPT !.recognition = "failed"]
          IN  voice' = IF voice.mounted THEN Commit(voice, OnError(ended, message)) ELSE ended
    /\ UNCHANGED <<pc, locationInfo, overpassData, nearbyPOIs, enriched, hour, recommendations,
                   userContext, searchData, searchResults, calls, app, route>>

\* Stop Recording (shown while isListening): stopListening
StopClick ==
    /\ voice.mounted /\ voice.isListening
    /\ voice' = Commit(voice, [voice EXCEPT
                    !.recognition = IF ServiceIsListening(voice) THEN "stopping" ELSE @,
                    !.isListening = FALSE])
    /\ UNCHANGED <<pc, locationInfo, overpassData, nearbyPOIs, enriched, hour, recommendations,
                   userContext, searchData, searchResults, calls, app, route>>

\* the 2000 ms timer of the effect fires: handleSubmit
TimerFires ==
    /\ voice.mounted /\ voice.timer
    /\ Len(voice.log) < MaxLog
    /\ voice' = Commit(voice, handleSubmit([voice EXCEPT !.timer = FALSE], "autoSend"))
    /\ UNCHANGED <<pc, locationInfo, overpassData, nearbyPOIs, enriched, hour, recommendations,
                   userContext, searchData, searchResults, calls, app, route>>

\* Send Now (shown while finalTranscript && !isLoading): handleSubmit
SendNowClick ==
    /\ voice.mounted /\ voice.finalTranscript # "" /\ ~voice.isLoading
    /\ Len(voice.log) < MaxLog
    /\ voice' = Commit(voice, handleSubmit(voice, "sendNow"))
    /\ UNCHANGED <<pc, locationInfo, overpassData, nearbyPOIs, enriched, hour, recommendations,
                   userContext, searchData, searchResults, calls, app, route>>

\* Clear (shown while finalTranscript && !isLoading): clearTranscript
ClearClick ==
    /\ voice.mounted /\ voice.finalTranscript # "" /\ ~voice.isLoading
    /\ voice' = Commit(voice, [voice EXCEPT !.transcript = "", !.finalTranscript = "",
                                            !.error = None, !.timer = FALSE])
    /\ UNCHANGED <<pc, locationInfo, overpassData, nearbyPOIs, enriched, hour, recommendations,
                   userContext, searchData, searchResults, calls, app, route>>

\* chatAPI.sendVoiceMessage resolves: onResponse, onClose (the component
\* unmounts and the cleanup clears the timer), finally onLoadingChange(false)
SendResolves ==
    /\ voice.inFlight # None
    /\ voice' = [voice EXCEPT !.inFlight = None, !.isLoading = FALSE, !.mounted = FALSE,
                              !.timer = FALSE]
    /\ UNCHANGED <<pc, locationInfo, overpassData, nearbyPOIs, enriched, hour, recommendations,
                   userContext, searchData, searchResults, calls, app, route>>

\* chatAPI.sendVoiceMessage rejects: setError, finally onLoadingChange(false)
SendRejects ==
    /\ voice.inFlight # None
    /\ \E message \in SendErrors :
          voice' = Commit(voice, [voice EXCEPT !.inFlight = None, !.isLoading = FALSE,
                                     !.error = Some(message),
                                     !.log = Append(voice.log, "fail")])
    /\ UNCHANGED <<pc, locationInfo, overpassData, nearbyPOIs, enriched, hour, recommendations,
                   userContext, searchData, searchResults, calls, app, route>>

----------------------------------------------------------------------------
(* App.handleLocationUpdate: every location update starts a nearby-POI     *)
(* request, and the requests settle in any order                           *)

\* the map reports at most MaxUpdates location updates
MaxUpdates == 3

\* the locations the map reports
Locations == {[lat |-> 41, lon |-> 12], [lat |-> 48, lon |-> 2]}

\* an attraction the nearby-POI query finds around a location
AttractionNear(location) ==
    [id |-> "osm_" \o NumToStr(location.lat), name |-> "Place",
     lat |-> location.lat, lon |-> location.lon,
     category |-> "tourism", subcategory |-> Some("attraction")]

\* the pois of a response to the query around a location: absent, [] or found
NearbyResponses(location) == {None, Some(<<>>), Some(<<AttractionNear(location)>>)}

\* the state of App before a location update, with the requests it made, in
\* the order it made them (pending, resolved with pois, or rejected)
NewApp ==
    [userLocation |-> None, mapMarkers |-> <<>>, isLoadingAttractions |-> FALSE,
     requests |-> <<>>]

\* handleLocationUpdate up to its await
LocationUpdate ==
    /\ Len(app.requests) < MaxUpdates
    /\ \E location \in Locations :
          app' = [app EXCEPT !.userLocation = Some(location),
                             !.isLoadingAttractions = TRUE,
                             !.requests = Append(@, [location |-> location,
                                                     status |-> "pending",
                                                     pois |-> None])]
    /\ UNCHANGED <<pc, locationInfo, overpassData, nearbyPOIs, enriched, hour, recommendations,
                   userContext, searchData, searchResults, calls, voice, route>>

\* the markers after the continuation that got a response with these pois:
\* if (response.pois && response.pois.length > 0) setMapMarkers(response.pois)
MarkersAfter(a, r, pois) ==
    IF pois # None /\ Len(pois[1]) > 0 THEN pois[1] ELSE a.mapMarkers

\* locationAPI.getNearbyPOIs of request r resolves: the rest of the try
\* block, then finally
NearbyPOIsResolve ==
    /\ \E r \in DOMAIN app.requests :
          /\ app.requests[r].status = "pending"
          /\ \E pois \in NearbyResponses(app.requests[r].location) :
                app' = [app EXCEPT !.mapMarkers = MarkersAfter(app, r, pois),
                                   !.isLoadingAttractions = FALSE,
                                   !.requests[r].status = "resolved",
                                   !.requests[r].pois = pois]
    /\ UNCHANGED <<pc, locationInfo, overpassData, nearbyPOIs, enriched, hour, recommendations,
                   userContext, searchData, searchResults, calls, voice, route>>

\* locationAPI.getNearbyPOIs of request r rejects: catch, then finally
NearbyPOIsReject ==
    /\ \E r \in DOMAIN app.requests :
          /\ app.requests[r].status = "pending"
          /\ app' = [app EXCEPT !.isLoadingAttractions = FALSE,
                                !.requests[r].status = "rejected"]
    /\ UNCHANGED <<pc, locationInfo, overpassData, nearbyPOIs, enriched, hour, recommendations,
                   userContext, searchData, searchResults, calls, voice, route>>

----------------------------------------------------------------------------
(* POST /route and OSMService.getRoutes *)

\* what a coordinate property of the request body holds: nothing or a number
CoordinateValues == {None, Some(0), Some(12), Some(41)}

\* from and to of the request body: absent, or an object with lat and lon
Points == {None} \cup {Some([lat |-> lat, lon |-> lon]) :
                          lat \in CoordinateValues, lon \in CoordinateValues}

RouteBodies == [from : Points, to : Points]

\* Date.now() when getRoutes builds the id
Clock == {1, 2}

\* ToBoolean of an optional number: undefined, null and 0 are falsy
TruthyNumber(o) == o # None /\ o[1] # 0

\* the values calculateDistance can return for two points, in metres: 0 for
\* equal points, a rounded great-circle distance otherwise
calculateDistance(from, to) == IF from = to THEN {0} ELSE {850, 1200}

\* OSMService.getRoutes, given what calculateDistance and Date.now() return
getRoutes(from, to, distance, now) ==
    LET duration == distance * 12
    IN  Some([id |-> "route_" \o NumToStr(now),
              coordinates |-> <<from, to>>,
              distance |-> distance,
              duration |-> duration,
              instructions |->
                  <<[text |-> "Head towards destination", distance |-> distance,
                     duration |-> duration, coordinates |-> from],
                    [text |-> "Arrive at destination", distance |-> 0,
                     duration |-> 0, coordinates |-> to]>>])

\* the validation of the handler: the 400 response, or none
RouteValidation(body) ==
    IF body.from = None \/ body.to = None
    THEN Some([status |-> 400, error |-> "Missing coordinates"])
    ELSE IF \/ ~TruthyNumber(body.from[1].lat) \/ ~TruthyNumber(body.from[1].lon)
            \/ ~TruthyNumber(body.to[1].lat) \/ ~TruthyNumber(body.to[1].lon)
    THEN Some([status |-> 400, error |-> "Invalid coordinates"])
    ELSE None

\* no request received yet
NoRoute == [pc |-> "idle", body |-> None, response |-> None]

\* POST /route arrives
RouteRequest ==
    /\ route.pc = "idle"
    /\ \E body \in RouteBodies : route' = [route EXCEPT !.pc = "received", !.body = Some(body)]
    /\ UNCHANGED <<pc, locationInfo, overpassData, nearbyPOIs, enriched, hour, recommendations,
                   userContext, searchData, searchResults, calls, voice, app>>

\* the handler validates and answers 400
RouteReject ==
    /\ route.pc = "received"
    /\ RouteValidation(route.body[1]) # None
    /\ route' = [route EXCEPT !.pc = "responded",
                              !.response = RouteValidation(route.body[1])]
    /\ UNCHANGED <<pc, locationInfo, overpassData, nearbyPOIs, enriched, hour, recommendations,
                   userContext, searchData, searchResults, calls, voice, app>>

\* the handler validates, awaits getRoutes and answers with the route (404
\* if getRoutes resolved to null)
RouteRespond ==
    /\ route.pc = "received"
    /\ RouteValidation(route.body[1]) = None
    /\ LET from == route.body[1].from[1]
           to == route.body[1].to[1]
       IN  \E distance \in calculateDistance(from, to) : \E now \in Clock :
              LET found == getRoutes(from, to, distance, now)
              IN  route' = [route EXCEPT
                      !.pc = "responded",
                      !.response =
                          IF found = None
                          THEN Some([status |-> 404, error |-> "Route not found"])
                          ELSE Some([status |-> 200, from |-> from, to |-> to,
                                     route |-> found[1]])]
    /\ UNCHANGED <<pc, locationInfo, overpassData, nearbyPOIs, enriched, hour, recommendations,
                   userContext, searchData, searchResults, calls, voice, app>>

----------------------------------------------------------------------------
(* GET /recommendations: enrichLocationContext, then generateRecommendations *)

Init ==
    /\ pc = "idle"
    /\ locationInfo = None
    /\ overpassData = None
    /\ nearbyPOIs = <<>>
    /\ enriched = None
    /\ hour = 0
    /\ recommendations = None
    /\ userContext = None
    /\ searchData = None
    /\ searchResults = <<>>
    /\ calls = <<>>
    /\ voice = Unmounted
    /\ app = NewApp
    /\ route = NoRoute

\* GET /recommendations: the route builds the user context from the query
\* string and calls enrichLocationContext, which awaits getLocationInfo
Request ==
    /\ pc = "idle"
    /\ \E preferences \in QueryPreferences :
          userContext' = Some(UserContextOf(preferences))
    /\ pc' = "reverse"
    /\ UNCHANGED <<locationInfo, overpassData, nearbyPOIs, enriched, hour, recommendations,
                   searchData, searchResults, calls,
                   voice, app, route>>

\* enrichLocationContext resumes from `await getLocationInfo(...)`: it
\* goes on to await getNearbyPOIs, or to its catch block on a rejection
AwaitLocationInfo(settled) ==
    /\ IF settled.rejected
       THEN /\ locationInfo' = None
            /\ enriched' = Some(EnrichCatch)
            /\ pc' = "enriched"
       ELSE /\ locationInfo' = settled.value
            /\ enriched' = enriched
            /\ pc' = "overpass"
    /\ UNCHANGED <<overpassData, nearbyPOIs, hour, recommendations,
                   userContext, searchData, searchResults, calls,
                   voice, app, route>>

\* the reverse geocoder answers
ReverseGeocodeReply ==
    /\ pc = "reverse"
    /\ \E body \in ReverseBodies : AwaitLocationInfo(getLocationInfo(Some(body)))

\* the reverse-geocode request fails
ReverseGeocodeFail ==
    /\ pc = "reverse"
    /\ AwaitLocationInfo(getLocationInfo(None))

\* enrichLocationContext resumes from `await getNearbyPOIs(...)`: it
\* analyzes the area and returns, or returns from its catch block on a
\* rejection
AwaitNearbyPOIs(reply, settled) ==
    /\ overpassData' = reply
    /\ IF settled.rejected
       THEN /\ nearbyPOIs' = <<>>
            /\ enriched' = Some(EnrichCatch)
       ELSE /\ nearbyPOIs' = settled.value
            /\ enriched' = Some(EnrichResult(locationInfo, settled.value))
    /\ pc' = "enriched"
    /\ UNCHANGED <<locationInfo, hour, recommendations,
                   userContext, searchData, searchResults, calls,
                   voice, app, route>>

\* the Overpass service answers
OverpassReply ==
    /\ pc = "overpass"
    /\ \E data \in OverpassBodies : AwaitNearbyPOIs(Some(data), getNearbyPOIs(Some(data)))

\* the Overpass request fails
OverpassFail ==
    /\ pc = "overpass"
    /\ AwaitNearbyPOIs(None, getNearbyPOIs(None))

\* the route, after its await: generateRecommendations reads the clock
Recommend ==
    /\ pc = "enriched"
    /\ \E h \in Hours :
          /\ hour' = h
          /\ recommendations' =
                Some(generateRecommendations(userContext[1], h, nearbyPOIs))
    /\ pc' = "responded"
    /\ UNCHANGED <<locationInfo, overpassData, nearbyPOIs, enriched,
                   userContext, searchData, searchResults, calls,
                   voice, app, route>>

\* GET /search: the route calls searchLocations, which awaits the request
SearchRequest ==
    /\ pc = "idle"
    /\ pc' = "search"
    /\ UNCHANGED <<locationInfo, overpassData, nearbyPOIs, enriched, hour, recommendations,
                   userContext, searchData, searchResults, calls,
                   voice, app, route>>

\* the route resumes from `await searchLocations(...)` and responds
AwaitSearchLocations(reply, settled) ==
    /\ searchData' = reply
    /\ searchResults' = settled.value
    /\ pc' = "searched"
    /\ UNCHANGED <<locationInfo, overpassData, nearbyPOIs, enriched, hour, recommendations,
                   userContext, calls,
                   voice, app, route>>

\* the search service answers
SearchReply ==
    /\ pc = "search"
    /\ \E data \in SearchBodies : AwaitSearchLocations(Some(data), searchLocations(Some(data)))

\* the search request fails
SearchFail ==
    /\ pc = "search"
    /\ AwaitSearchLocations(None, searchLocations(None))

Next ==
    \/ Request
    \/ ReverseGeocodeReply
    \/ ReverseGeocodeFail
    \/ OverpassReply
    \/ OverpassFail
    \/ Recommend
    \/ SearchRequest
    \/ SearchReply
    \/ SearchFail

Spec == Init /\ [][Next]_vars

----------------------------------------------------------------------------
(* GET /search served after a nearby-POI request whose tagged-node query   *)
(* was answered: the state holds the POIs of both sources                  *)

InitSearch ==
    /\ pc = "idle"
    /\ locationInfo = None
    /\ \E data \in OverpassBodies :
          /\ overpassData = Some(data)
          /\ nearbyPOIs = getNearbyPOIs(Some(data)).value
    /\ enriched = Some(EnrichResult(None, nearbyPOIs))
    /\ hour = 0
    /\ recommendations = None
    /\ userContext = None
    /\ searchData = None
    /\ searchResults = <<>>
    /\ calls = <<>>
    /\ voice = Unmounted
    /\ app = NewApp
    /\ route = NoRoute

NextSearch ==
    \/ SearchRequest
    \/ SearchReply
    \/ SearchFail

SpecSearch == InitSearch /\ [][NextSearch]_vars

----------------------------------------------------------------------------
(* generateRecommendations applied, at every hour, to every list of at     *)
(* most MaxShortPois POIs of any kind, of at most MaxPois POIs of the      *)
(* policy kinds and of at most MaxLongPois POIs of the core kinds: the     *)
(* state is that of a request whose enrichLocationContext resolved with    *)
(* these POIs                                                              *)

InitRecommend ==
    /\ pc = "enriched"
    /\ locationInfo = None
    /\ overpassData = None
    /\ \/ PickPois(nearbyPOIs, AllKinds, MaxShortPois)
       \/ PickPois(nearbyPOIs, PolicyKinds, MaxPois)
       \/ PickPois(nearbyPOIs, CoreKinds, MaxLongPois)
    /\ enriched = Some(EnrichResult(None, nearbyPOIs))
    /\ hour = 0
    /\ recommendations = None
    /\ userContext = Some(UserContextOf(None))
    /\ searchData = None
    /\ searchResults = <<>>
    /\ calls = <<>>
    /\ voice = Unmounted
    /\ app = NewApp
    /\ route = NoRoute

NextRecommend == Recommend

SpecRecommend == InitRecommend /\ [][NextRecommend]_vars

----------------------------------------------------------------------------
(* analyzeAreaContext applied to every reverse-geocode result and every    *)
(* list of at most MaxContextPois POIs of the context kinds                *)

\* what getLocationInfo resolved to: null, or a body with an address
ContextInfos ==
    {None, Some([address |-> Some(Dict({<<"suburb", "Trastevere">>, <<"city", "Rome">>}))])}

InitContext ==
    /\ pc = "analyze"
    /\ locationInfo \in ContextInfos
    /\ overpassData = None
    /\ PickPois(nearbyPOIs, ContextKinds, MaxContextPois)
    /\ enriched = None
    /\ hour = 0
    /\ recommendations = None
    /\ userContext = None
    /\ searchData = None
    /\ searchResults = <<>>
    /\ calls = <<>>
    /\ voice = Unmounted
    /\ app = NewApp
    /\ route = NoRoute

Analyze ==
    /\ pc = "analyze"
    /\ enriched' = Some(EnrichResult(locationInfo, nearbyPOIs))
    /\ pc' = "enriched"
    /\ UNCHANGED <<locationInfo, overpassData, nearbyPOIs, hour, recommendations,
                   userContext, searchData, searchResults, calls,
                   voice, app, route>>

NextContext == Analyze

SpecContext == InitContext /\ [][NextContext]_vars

----------------------------------------------------------------------------
(* Concurrent enrichLocationContext calls on the one LocationService       *)
(* instance, each for its own coordinates, interleaved at their awaits     *)

CallIds == 1..MaxCalls

\* the coordinates of the calls differ
CoordinatesOf(c) == [lat |-> 40 + c, lon |-> 12]

\* the locals of an invocation that awaits getLocationInfo, and the replies
\* its two requests got (absent: none yet, or the request failed)
NewCall(c) ==
    [pc |-> "reverse", coordinates |-> CoordinatesOf(c),
     reverseReply |-> None, overpassReply |-> None,
     locationInfo |-> None, nearbyPOIs |-> <<>>, result |-> None]

\* address objects of reverse-geocode responses
Addresses ==
    { None,
      Some(Dict({<<"suburb", "Trastevere">>, <<"neighbourhood", "Santa Maria">>,
                 <<"city", "Rome">>})),
      Some(Dict({<<"neighbourhood", "Santa Maria">>, <<"city", "Rome">>})),
      Some(Dict({<<"city", "Rome">>, <<"road", "Via Appia">>})),
      Some(Dict({<<"road", "Via Appia">>})),
      Some(Dict({<<"suburb", "">>, <<"city", "Rome">>})) }

\* what the reverse geocoder can answer for coordinates
ReverseBodiesAt(coordinates) ==
    {[lat |-> NumToStr(coordinates.lat), lon |-> NumToStr(coordinates.lon),
      address |-> a] : a \in Addresses}

\* a node found around coordinates
ElementAt(coordinates, tags, i) ==
    [id |-> 100 * coordinates.lat + i, lat |-> coordinates.lat, lon |-> coordinates.lon,
     tags |-> tags]

\* what the Overpass service can answer for coordinates
OverpassBodiesAt(coordinates) ==
    { [elements |-> None],
      [elements |-> Some(<<>>)],
      [elements |-> Some(<<Some(ElementAt(coordinates,
                                Some(Dict({<<"name", "Cafe Roma">>, <<"amenity", "cafe">>})), 1))>>)],
      [elements |-> Some(<<Some(ElementAt(coordinates, None, 1)),
                           Some(ElementAt(coordinates,
                                Some(Dict({<<"name", "City Museum">>,
                                           <<"tourism", "museum">>})), 2))>>)] }

\* locationInfo kept in a field of the service instance, which the calls share
KeepLocationInfo_Shared(cs, c, info) ==
    [d \in DOMAIN cs |-> [cs[d] EXCEPT !.locationInfo = info]]

\* const locationInfo = await ...: a local of the invocation
KeepLocationInfo(cs, c, info) == [cs EXCEPT ![c].locationInfo = info]

InitConcurrent ==
    /\ pc = "idle"
    /\ locationInfo = None
    /\ overpassData = None
    /\ nearbyPOIs = <<>>
    /\ enriched = None
    /\ hour = 0
    /\ recommendations = None
    /\ userContext = None
    /\ searchData = None
    /\ searchResults = <<>>
    /\ calls = [c \in CallIds |-> NewCall(c)]
    /\ voice = Unmounted
    /\ app = NewApp
    /\ route = NoRoute

\* call c resumes from `await getLocationInfo(...)`
CallAwaitLocationInfo(c, reply, settled) ==
    /\ calls' =
          IF settled.rejected
          THEN [calls EXCEPT ![c].reverseReply = reply,
                             ![c].result = Some(EnrichCatch),
                             ![c].pc = "done"]
          ELSE [KeepLocationInfo(calls, c, settled.value)
                   EXCEPT ![c].reverseReply = reply, ![c].pc = "overpass"]
    /\ UNCHANGED <<pc, locationInfo, overpassData, nearbyPOIs, enriched, hour,
                   recommendations, userContext, searchData, searchResults,
                   voice, app, route>>

\* the reverse-geocode request of call c settles: answered, or failed
CallReverseSettles(c) ==
    /\ calls[c].pc = "reverse"
    /\ \E reply \in {None} \cup {Some(b) : b \in ReverseBodiesAt(calls[c].coordinates)} :
          CallAwaitLocationInfo(c, reply, getLocationInfo(reply))

\* call c resumes from `await getNearbyPOIs(...)`, analyzes and returns
CallAwaitNearbyPOIs(c, reply, settled) ==
    /\ calls' =
          IF settled.rejected
          THEN [calls EXCEPT ![c].overpassReply = reply,
                             ![c].result = Some(EnrichCatch),
                             ![c].pc = "done"]
          ELSE [calls EXCEPT ![c].overpassReply = reply,
                             ![c].nearbyPOIs = settled.value,
                             ![c].result = Some(EnrichResult(calls[c].locationInfo,
                                                             settled.value)),
                             ![c].pc = "done"]
    /\ UNCHANGED <<pc, locationInfo, overpassData, nearbyPOIs, enriched, hour,
                   recommendations, userContext, searchData, searchResults,
                   voice, app, route>>

\* the Overpass request of call c settles: answered, or failed
CallOverpassSettles(c) ==
    /\ calls[c].pc = "overpass"
    /\ \E reply \in {None} \cup {Some(b) : b \in OverpassBodiesAt(calls[c].coordinates)} :
          CallAwaitNearbyPOIs(c, reply, getNearbyPOIs(reply))

NextConcurrent ==
    \/ \E c \in CallIds : CallReverseSettles(c)
    \/ \E c \in CallIds : CallOverpassSettles(c)

SpecConcurrent == InitConcurrent /\ [][NextConcurrent]_vars

----------------------------------------------------------------------------
(* The VoiceInput component after it was opened *)

InitVoice ==
    /\ pc = "idle"
    /\ locationInfo = None
    /\ overpassData = None
    /\ nearbyPOIs = <<>>
    /\ enriched = None
    /\ hour = 0
    /\ recommendations = None
    /\ userContext = None
    /\ searchData = None
    /\ searchResults = <<>>
    /\ calls = <<>>
    /\ voice = Mounted
    /\ app = NewApp
    /\ route = NoRoute

NextVoice ==
    \/ StartRecordingClick
    \/ RecognitionStarts
    \/ RecognitionResult
    \/ RecognitionEnds
    \/ RecognitionError
    \/ StopClick
    \/ TimerFires
    \/ SendNowClick
    \/ ClearClick
    \/ SendResolves
    \/ SendRejects

SpecVoice == InitVoice /\ [][NextVoice]_vars

----------------------------------------------------------------------------
(* The App component receiving location updates from the map *)

InitMarkers ==
    /\ pc = "idle"
    /\ locationInfo = None
    /\ overpassData = None
    /\ nearbyPOIs = <<>>
    /\ enriched = None
    /\ hour = 0
    /\ recommendations = None
    /\ userContext = None
    /\ searchData = None
    /\ searchResults = <<>>
    /\ calls = <<>>
    /\ voice = Unmounted
    /\ app = NewApp
    /\ route = NoRoute

NextMarkers ==
    \/ LocationUpdate
    \/ NearbyPOIsResolve
    \/ NearbyPOIsReject

SpecMarkers == InitMarkers /\ [][NextMarkers]_vars

----------------------------------------------------------------------------
(* POST /route *)

InitRoute ==
    /\ pc = "idle"
    /\ locationInfo = None
    /\ overpassData = None
    /\ nearbyPOIs = <<>>
    /\ enriched = None
    /\ hour = 0
    /\ recommendations = None
    /\ userContext = None
    /\ searchData = None
    /\ searchResults = <<>>
    /\ calls = <<>>
    /\ voice = Unmounted
    /\ app = NewApp
    /\ route = NoRoute

NextRoute ==
    \/ RouteRequest
    \/ RouteReject
    \/ RouteRespond

SpecRoute == InitRoute /\ [][NextRoute]_vars

----------------------------------------------------------------------------
(* The properties.  What the specification says of a POI is stated here    *)
(* from its text, independently of the operators above.                    *)

\* the bucket of a POI by the rule table of the classifier
TableBucket(p) ==
    IF p.category = "amenity"
    THEN IF p.subcategory \in {Some("restaurant"), Some("cafe"), Some("bar"),
                               Some("pub"), Some("fast_food")}
         THEN "restaurants" ELSE "services"
    ELSE IF p.category \in {"tourism", "leisure"} THEN "attractions"
    ELSE IF p.category \in {"shopping", "shop"} THEN "shopping"
    ELSE "other"

\* the POIs of a list that the table puts in bucket b, in the list's order
BucketOf(pois, b) == SelectSeq(pois, LAMBDA p : TableBucket(p) = b)

\* the first n entries of a list
FirstN(s, n) == [i \in 1..(IF Len(s) < n THEN Len(s) ELSE n) |-> s[i]]

\* how often x occurs in a list
Occurrences(s, x) == Cardinality({i \in DOMAIN s : s[i] = x})

Responded == pc = "responded"

Rec == recommendations[1]

\* C1: whatever the POI list and the hour, generateRecommendations returns at
\* most 5 immediate POIs, no POI is both immediate and nearby, and no POI
\* occurs more often in immediate and nearby together than in the input.
C1_ImmediateBoundedAndDisjoint ==
    Responded =>
        /\ Len(Rec.immediate) <= 5
        /\ \A i \in DOMAIN Rec.immediate : \A j \in DOMAIN Rec.nearby :
              Rec.immediate[i] # Rec.nearby[j]
        /\ \A i \in DOMAIN (Rec.immediate \o Rec.nearby) :
              LET x == (Rec.immediate \o Rec.nearby)[i]
              IN  Occurrences(Rec.immediate \o Rec.nearby, x) <= Occurrences(nearbyPOIs, x)

\* seven POIs, more than five of them candidates: five immediate, the rest nearby
C1_Witness ==
    /\ Responded
    /\ Len(nearbyPOIs) = 7
    /\ Len(Rec.immediate) = 5
    /\ Len(Rec.nearby) = 2

\* C2: categorizeNearbyPlaces puts every POI in exactly one of the five
\* buckets, the one the rule table gives it: each bucket is the input's POIs
\* of that bucket, with their multiplicity and in their order.
C2_BucketsPartitionInput ==
    LET c == categorizeNearbyPlaces(nearbyPOIs)
    IN  /\ DOMAIN c = {"restaurants", "attractions", "shopping", "services", "other"}
        /\ \A b \in DOMAIN c : c[b] = BucketOf(nearbyPOIs, b)
        /\ \A i \in DOMAIN nearbyPOIs :
              Cardinality({b \in DOMAIN c : \E j \in DOMAIN c[b] : c[b][j] = nearbyPOIs[i]}) = 1

\* a tourism and a leisure POI share the attractions bucket, a dining POI
\* is in restaurants
C2_Witness ==
    LET c == categorizeNearbyPlaces(nearbyPOIs)
    IN  /\ Responded
        /\ Len(c.restaurants) = 1
        /\ Len(c.attractions) = 2
        /\ c.attractions[1].category = "leisure"
        /\ c.attractions[2].category = "tourism"

\* the Overpass response was parsed: the elements parseOverpassResponse saw
Parsed == pc \in {"enriched", "responded"} /\ overpassData # None
          /\ overpassData[1].elements # None

Elements == overpassData[1].elements[1]

\* an element with neither a name tag nor a brand tag (or no tags at all)
Nameless(e) ==
    \/ e.tags = None
    \/ ("name" \notin DOMAIN e.tags[1] /\ "brand" \notin DOMAIN e.tags[1])

\* C3: an element with neither a name tag nor a brand tag yields no POI, and
\* no POI with the placeholder name is ever emitted.
C3_NamelessDropped ==
    Parsed =>
        /\ \A i \in DOMAIN Elements :
              (Elements[i] # None /\ Nameless(Elements[i][1]))
                  => ~\E j \in DOMAIN nearbyPOIs : nearbyPOIs[j].ref = i
        /\ \A j \in DOMAIN nearbyPOIs : nearbyPOIs[j].name # "Unnamed Location"

\* of two elements, the one without tags is dropped and the named one kept
C3_Witness ==
    /\ Parsed
    /\ Len(Elements) = 2
    /\ Elements[1] # None /\ Elements[1][1].tags = None
    /\ Len(nearbyPOIs) = 1
    /\ nearbyPOIs[1].ref = 2

CategoryKeys == <<"amenity", "tourism", "shop", "leisure">>

\* the tags parseOverpassResponse reads of an element
TagsOf(e) == IF e.tags = None THEN <<>> ELSE e.tags[1]

\* the positions in CategoryKeys of the keys the dictionary has
KeysSet(t) == {i \in DOMAIN CategoryKeys : CategoryKeys[i] \in DOMAIN t}

\* the positions in CategoryKeys of the keys the dictionary has with a
\* non-empty value
KeysNonEmpty(t) == {i \in KeysSet(t) : t[CategoryKeys[i]] # ""}

\* the first of the keys in priority order, 'shop' displayed as 'shopping'
FirstMatch(t, keys) ==
    IF keys = {} THEN [main |-> "other", sub |-> None]
    ELSE LET k == CategoryKeys[CHOOSE i \in keys : \A j \in keys : i <= j]
         IN  [main |-> IF k = "shop" THEN "shopping" ELSE k, sub |-> Some(t[k])]

\* every emitted POI has the category and subcategory of the first match
\* among the given keys of its element's tags
ClassifiedBy(Keys(_)) ==
    Parsed =>
        \A j \in DOMAIN nearbyPOIs :
            LET t == TagsOf(Elements[nearbyPOIs[j].ref][1])
            IN  /\ nearbyPOIs[j].category = FirstMatch(t, Keys(t)).main
                /\ nearbyPOIs[j].subcategory = FirstMatch(t, Keys(t)).sub

\* C4 as stated: determineCategory returns the first of amenity, tourism,
\* shop, leisure that is set, with its value as sub ('shop' as 'shopping');
\* amenity and tourism both set gives 'amenity'; none set gives 'other'.
C4_FirstKeySet == ClassifiedBy(KeysSet)

\* C4, amended: determineCategory returns the first of amenity, tourism, shop,
\* leisure that is set to a non-empty value, with that value as sub ('shop'
\* as 'shopping'); amenity and tourism both non-empty gives 'amenity'; none of
\* the four non-empty gives 'other' without sub.
C4_FirstKeyNonEmpty == ClassifiedBy(KeysNonEmpty)

\* an element tagged amenity and tourism, both non-empty, classified amenity
C4_Witness ==
    /\ Parsed
    /\ \E j \in DOMAIN nearbyPOIs :
          /\ KeysNonEmpty(nearbyPOIs[j].tags) = {1, 2}
          /\ nearbyPOIs[j].category = "amenity"

\* C5: every hour 0..23 selects exactly one policy: 7..10 morning, 11..14
\* midday, 15..18 afternoon, every other hour evening.
C5_OnePolicyPerHour ==
    Responded =>
        LET policy == <<Rec.categories, Rec.tips>>
        IN  /\ hour \in 0..23
            /\ hour \in 7..10 <=>
                  policy = << <<"breakfast", "coffee", "morning attractions">>,
                              <<"Perfect time for a coffee and sightseeing!">> >>
            /\ hour \in 11..14 <=>
                  policy = << <<"lunch", "shopping", "attractions">>,
                              <<"Great time for lunch and some shopping!">> >>
            /\ hour \in 15..18 <=>
                  policy = << <<"attractions", "coffee", "culture">>,
                              <<"Perfect time to explore attractions and enjoy a coffee break!">> >>
            /\ hour \in (0..6) \cup (19..23) <=>
                  policy = << <<"dinner", "nightlife", "evening attractions">>,
                              <<"Time for dinner and evening entertainment!">> >>

\* 23 o'clock: the evening policy
C5_Witness ==
    /\ Responded
    /\ hour = 23
    /\ Rec.categories = <<"dinner", "nightlife", "evening attractions">>

\* the value of a POI's tag, when it has one
TagOf(p, k) == IF k \in DOMAIN p.tags THEN Some(p.tags[k]) ELSE None

MorningHours == 7..10

EveningHours == (0..6) \cup (19..23)

\* the morning selection: the first 3 dining POIs that pass, then the first
\* 2 attractions
MorningSelection(Passes(_)) ==
    FirstN(SelectSeq(BucketOf(nearbyPOIs, "restaurants"), Passes), 3)
    \o FirstN(BucketOf(nearbyPOIs, "attractions"), 2)

MorningAsAmended ==
    (Responded /\ hour \in MorningHours) =>
        /\ Rec.immediate =
              MorningSelection(LAMBDA p : \/ p.subcategory = Some("cafe")
                                          \/ TagOf(p, "breakfast") = Some("yes"))
        /\ Rec.categories = <<"breakfast", "coffee", "morning attractions">>

\* at hour 8, of a cafe and an attraction alone, both are immediate
CafeAndAttractionAtEight ==
    (/\ Responded /\ hour = 8 /\ Len(nearbyPOIs) = 2
     /\ \E i \in 1..2 : TableBucket(nearbyPOIs[i]) = "restaurants"
                        /\ nearbyPOIs[i].subcategory = Some("cafe")
     /\ \E i \in 1..2 : TableBucket(nearbyPOIs[i]) = "attractions")
        => \A i \in 1..2 : \E j \in DOMAIN Rec.immediate : Rec.immediate[j] = nearbyPOIs[i]

\* C6 as stated: in the morning, immediate is the first 3 dining POIs with
\* subcategory 'cafe' or a truthy breakfast tag, then the first 2
\* attractions, with the morning categories.
C6_MorningTruthyBreakfast ==
    /\ (Responded /\ hour \in MorningHours) =>
          /\ Rec.immediate =
                MorningSelection(LAMBDA p : \/ p.subcategory = Some("cafe")
                                            \/ Truthy(TagOf(p, "breakfast")))
          /\ Rec.categories = <<"breakfast", "coffee", "morning attractions">>
    /\ CafeAndAttractionAtEight

\* C6, amended: in the morning (hour 7..10), immediate is the first 3 dining
\* POIs with subcategory 'cafe' or a breakfast tag equal to 'yes', then the
\* first 2 attractions, with categories breakfast, coffee, morning
\* attractions; at hour 8 a cafe and an attraction alone are both immediate.
C6_MorningBreakfastYes == MorningAsAmended /\ CafeAndAttractionAtEight

\* a morning where a bar serving breakfast is immediate and a restaurant
\* tagged breakfast=no is not
C6_Witness ==
    /\ Responded
    /\ hour = 8
    /\ \E j \in DOMAIN Rec.immediate :
          /\ Rec.immediate[j].subcategory = Some("bar")
          /\ TagOf(Rec.immediate[j], "breakfast") = Some("yes")
    /\ \E i \in DOMAIN nearbyPOIs :
          /\ TagOf(nearbyPOIs[i], "breakfast") = Some("no")
          /\ \A j \in DOMAIN Rec.immediate : Rec.immediate[j] # nearbyPOIs[i]
    /\ \E j \in DOMAIN Rec.immediate : Rec.immediate[j].category = "tourism"

\* opening hours that are 24/7
OpenAllHours(p) ==
    /\ TagOf(p, "opening_hours") # None
    /\ LET o == TagOf(p, "opening_hours")[1]
       IN  \E i \in 1..Len(o) : i + 3 <= Len(o) /\ SubSeq(o, i, i + 3) = "24/7"

\* C7: in the evening (any hour outside 7..18), immediate is the first 3
\* dining POIs with subcategory restaurant, bar or pub, then the first 2
\* attractions that are open 24/7 or of category tourism, so that no leisure
\* attraction without 24/7 hours is selected; the categories are dinner,
\* nightlife, evening attractions.
C7_EveningPolicy ==
    (Responded /\ hour \in EveningHours) =>
        /\ Rec.immediate =
              FirstN(SelectSeq(BucketOf(nearbyPOIs, "restaurants"),
                               LAMBDA p : p.subcategory \in
                                   {Some("restaurant"), Some("bar"), Some("pub")}), 3)
              \o FirstN(SelectSeq(BucketOf(nearbyPOIs, "attractions"),
                                  LAMBDA p : OpenAllHours(p) \/ p.category = "tourism"), 2)
        /\ \A j \in DOMAIN Rec.immediate :
              Rec.immediate[j].category = "leisure" => OpenAllHours(Rec.immediate[j])
        /\ Rec.categories = <<"dinner", "nightlife", "evening attractions">>

\* an evening where a park open 24/7 is immediate and a garden with
\* office hours, listed before it, is not
C7_Witness ==
    /\ Responded
    /\ hour = 21
    /\ Len(nearbyPOIs) = 3
    /\ nearbyPOIs[1].category = "leisure" /\ ~OpenAllHours(nearbyPOIs[1])
    /\ nearbyPOIs[2].category = "leisure" /\ OpenAllHours(nearbyPOIs[2])
    /\ nearbyPOIs[3].subcategory = Some("restaurant")
    /\ Rec.immediate = <<nearbyPOIs[3], nearbyPOIs[2]>>

\* the positions of the input POIs that are not immediate
Unselected ==
    {i \in DOMAIN nearbyPOIs : \A j \in DOMAIN Rec.immediate : Rec.immediate[j] # nearbyPOIs[i]}

\* the k-th smallest of a set of positions
Kth(positions, k) ==
    CHOOSE i \in positions : Cardinality({j \in positions : j < i}) = k - 1

\* C8: nearby is the first 5, in input order, of the input POIs that are not
\* immediate; it has fewer than 5 only when fewer than 5 are unselected.
C8_NearbyFirstFiveUnselected ==
    Responded =>
        /\ Len(Rec.nearby) = (IF Cardinality(Unselected) < 5
                              THEN Cardinality(Unselected) ELSE 5)
        /\ \A k \in DOMAIN Rec.nearby : Rec.nearby[k] = nearbyPOIs[Kth(Unselected, k)]

\* six POIs are unselected, one is immediate: nearby holds five
C8_Witness ==
    /\ Responded
    /\ Len(Rec.immediate) = 1
    /\ Cardinality(Unselected) = 6
    /\ Len(Rec.nearby) = 5
    /\ Rec.immediate[1] = nearbyPOIs[1]

\* enrichLocationContext has resolved
Enriched == enriched # None

Context == enriched[1].contextualInfo

TourismCount == Cardinality({i \in DOMAIN nearbyPOIs : nearbyPOIs[i].category = "tourism"})

\* the amenity POIs with subcategory restaurant, cafe or bar
DiningCount ==
    Cardinality({i \in DOMAIN nearbyPOIs :
                    /\ nearbyPOIs[i].category = "amenity"
                    /\ nearbyPOIs[i].subcategory \in
                          {Some("restaurant"), Some("cafe"), Some("bar")}})

\* C9: touristArea is true exactly when more than 3 POIs have category
\* tourism; when it is true and no more than 5 POIs are dining POIs, cityType
\* is 'tourist' and the two tourist-area suggestions are given.
C9_TouristAreaAboveThree ==
    Enriched =>
        /\ Context.touristArea <=> TourismCount > 3
        /\ (Context.touristArea /\ DiningCount <= 5) =>
              /\ Context.cityType = "tourist"
              /\ Context.suggestions =
                    <<"This appears to be a popular tourist area",
                      "Consider visiting multiple attractions within walking distance">>

\* exactly 4 tourism POIs among others: a tourist area
C9_Witness ==
    /\ pc = "enriched"
    /\ TourismCount = 4
    /\ DiningCount = 5
    /\ Context.touristArea
    /\ Context.cityType = "tourist"

\* the documented safe-empty default of enrichLocationContext
SafeEmptyDefault ==
    [locationInfo |-> None,
     nearbyPOIs |-> <<>>,
     contextualInfo |-> [area |-> "Unknown", cityType |-> "unknown",
                         touristArea |-> FALSE, suggestions |-> <<>>]]

\* both upstream requests of the call failed
BatchUnavailable == Enriched /\ locationInfo = None /\ overpassData = None

\* C10: when the reverse-geocode call and the tagged-node query both fail,
\* enrichLocationContext returns the safe-empty default.
C10_SafeDefaultWhenUnavailable ==
    BatchUnavailable => enriched[1] = SafeEmptyDefault

\* C11: enrichLocationContext settles with a result whether the
\* reverse-geocode call and the tagged-node query succeed or fail, and a
\* failed tagged-node query gives the result of a query that found no POIs:
\* nearbyPOIs is empty, the reverse-geocode result is kept and the area is
\* analyzed as one without POIs.
C11_NeverRejects ==
    /\ pc \in {"enriched", "responded"} => enriched # None
    /\ (Enriched /\ overpassData = None) =>
          /\ enriched[1].nearbyPOIs = <<>>
          /\ enriched[1].locationInfo = locationInfo
          /\ Context.cityType = "residential"
          /\ ~Context.touristArea
          /\ Context.suggestions = <<>>

\* the reverse geocoder answered with an address, the tagged-node query failed
C11_Witness ==
    /\ Enriched
    /\ overpassData = None
    /\ locationInfo # None
    /\ locationInfo[1].address # None
    /\ enriched[1].nearbyPOIs = <<>>
    /\ enriched[1].locationInfo = locationInfo

\* the ids of a list of POIs
PoiIds(pois) == [i \in DOMAIN pois |-> pois[i].id]

\* the search response was an array: the hits parseNominatimSearchResponse saw
Searched == pc = "searched" /\ searchData # None /\ searchData[1].array # None

Hits == searchData[1].array[1]

\* an entry of a batch that is a record the normalizer can read
ReadableElement(e) == e # None

ReadableHit(h) == h # None /\ h[1].display_name # None

\* C12: a malformed record of an upstream batch (a null element, a search hit
\* without display_name) is skipped on its own: the batch yields the POIs it
\* yields without its malformed records.
C12_MalformedRecordSkipped ==
    /\ Parsed =>
          PoiIds(nearbyPOIs) =
              PoiIds(parseOverpassResponse(
                         [elements |-> Some(SelectSeq(Elements, ReadableElement))]).value)
    /\ Searched =>
          PoiIds(searchResults) =
              PoiIds(parseNominatimSearchResponse(
                         [array |-> Some(SelectSeq(Hits, ReadableHit))]).value)

\* every entry of the search response is a hit with a display name
WellFormedHits == \A i \in DOMAIN Hits : ReadableHit(Hits[i])

\* the part of a string before its first comma (all of it when it has none)
FirstCommaSegment(s) ==
    LET n == CHOOSE n \in 0..Len(s) :
                 /\ \A j \in 1..n : SubSeq(s, j, j) # ","
                 /\ n = Len(s) \/ SubSeq(s, n + 1, n + 1) = ","
    IN  SubSeq(s, 1, n)

\* a field of a hit with a value: the empty string is no value
HasValue(o) == o # None /\ o[1] # ""

\* C13: the search-result normalizer discards no hit: the output has one POI
\* per hit, in the order of the hits, whose name is the first comma-segment of
\* the display name, whose category is the raw class, or 'location' when the
\* hit has no class, and whose description and address are the full display
\* name.
C13_EveryHitBecomesPoi ==
    (Searched /\ WellFormedHits) =>
        /\ Len(searchResults) = Len(Hits)
        /\ \A i \in DOMAIN Hits :
              LET hit == Hits[i][1]
                  poi == searchResults[i]
              IN  /\ poi.ref = i
                  /\ poi.name = FirstCommaSegment(hit.display_name[1])
                  /\ poi.category = (IF HasValue(hit.class) THEN hit.class[1] ELSE "location")
                  /\ poi.description = hit.display_name
                  /\ poi.address = hit.display_name

\* two hits, the second without a class: two POIs, 'Rome' of class place and
\* 'Colosseum' of category location
C13_Witness ==
    /\ Searched
    /\ Len(Hits) = 2
    /\ WellFormedHits
    /\ Hits[2][1].class = None
    /\ Len(searchResults) = 2
    /\ searchResults[1].name = "Rome"
    /\ searchResults[1].category = "place"
    /\ searchResults[1].description = Some("Rome, Lazio, Italy")
    /\ searchResults[2].name = "Colosseum"
    /\ searchResults[2].category = "location"

\* the closed set of categories of the data model
ClosedCategories == {"tourism", "amenity", "shopping", "leisure", "other"}

\* C14 as stated: every POI emitted by either normalizer has a category in
\* the closed set {tourism, amenity, shopping, leisure, other}.
C14_CategoryClosedSet ==
    /\ Parsed => \A j \in DOMAIN nearbyPOIs : nearbyPOIs[j].category \in ClosedCategories
    /\ Searched => \A j \in DOMAIN searchResults : searchResults[j].category \in ClosedCategories

\* C14, amended: every POI emitted by the tagged-node normalizer has a
\* category in the closed set; a POI emitted by the search-result normalizer
\* has the class of its hit as category, or 'location' when the hit has no
\* class, and so a category of the closed set only when the class is one.
C14_TaggedCategoryClosed ==
    /\ Parsed => \A j \in DOMAIN nearbyPOIs : nearbyPOIs[j].category \in ClosedCategories
    /\ (Searched /\ WellFormedHits) =>
          \A j \in DOMAIN searchResults :
              LET class == Hits[searchResults[j].ref][1].class
              IN  /\ searchResults[j].category \in
                        (IF HasValue(class) THEN {class[1]} ELSE {"location"})
                  /\ searchResults[j].category \in ClosedCategories
                        <=> (HasValue(class) /\ class[1] \in ClosedCategories)

\* two tagged nodes, a shop and a node that has only a name: the categories
\* shopping and other
C14_Witness ==
    /\ Parsed
    /\ Len(nearbyPOIs) = 2
    /\ "shop" \in DOMAIN nearbyPOIs[1].tags
    /\ nearbyPOIs[1].category = "shopping"
    /\ DOMAIN nearbyPOIs[2].tags = {"name"}
    /\ nearbyPOIs[2].category = "other"

DigitChar(d) == SubSeq("0123456789", d + 1, d + 1)

\* the decimal numeral of a number below 1000
Numeral(n) ==
    IF n < 10 THEN DigitChar(n)
    ELSE IF n < 100 THEN DigitChar(n \div 10) \o DigitChar(n % 10)
    ELSE DigitChar(n \div 100) \o DigitChar((n \div 10) % 10) \o DigitChar(n % 10)

\* the search request was served after a tagged-node query was answered
BothSources == pc = "searched" /\ overpassData # None

\* the upstream record of a POI: the element or the hit at its position
ElementOf(poi) == overpassData[1].elements[1][poi.ref][1]

HitOf(poi) == Hits[poi.ref][1]

\* C15: a tagged-node POI has id 'osm_<id>' and a search-result POI has id
\* 'nominatim_<place_id>'; no tagged-node POI has the id of a search-result
\* POI, and two POIs of one source whose records have different upstream ids
\* have different ids.
C15_IdsNamespacedBySource ==
    BothSources =>
        /\ \A j \in DOMAIN nearbyPOIs :
              nearbyPOIs[j].id = "osm_" \o Numeral(ElementOf(nearbyPOIs[j]).id)
        /\ \A j \in DOMAIN searchResults :
              searchResults[j].id = "nominatim_" \o Numeral(HitOf(searchResults[j]).place_id)
        /\ \A j \in DOMAIN nearbyPOIs : \A k \in DOMAIN searchResults :
              nearbyPOIs[j].id # searchResults[k].id
        /\ \A j, k \in DOMAIN nearbyPOIs :
              ElementOf(nearbyPOIs[j]).id # ElementOf(nearbyPOIs[k]).id
                  => nearbyPOIs[j].id # nearbyPOIs[k].id
        /\ \A j, k \in DOMAIN searchResults :
              HitOf(searchResults[j]).place_id # HitOf(searchResults[k]).place_id
                  => searchResults[j].id # searchResults[k].id

\* a node and a hit with the same upstream id 101, and a second node and a
\* second hit
C15_Witness ==
    /\ BothSources
    /\ Len(nearbyPOIs) = 2
    /\ Len(searchResults) = 2
    /\ ElementOf(nearbyPOIs[1]).id = 101
    /\ HitOf(searchResults[1]).place_id = 101
    /\ nearbyPOIs[1].id = "osm_101"
    /\ searchResults[1].id = "nominatim_101"

\* preference lists a user context can carry, and none
AnyPreferences ==
    {None, Some(<<"museum">>), Some(<<"cafe", "park">>), Some(<<"bank">>),
     Some(<<"restaurant", "bar", "pub">>)}

\* C16: the preferences of the user context do not influence the selection:
\* with the same POI list and the same hour, generateRecommendations returns
\* for every other value of preferences the immediate, nearby, categories
\* and tips it returned for the request's user context.
C16_PreferencesIgnored ==
    Responded =>
        \A preferences \in AnyPreferences :
            LET other == generateRecommendations(
                             [userContext[1] EXCEPT !.preferences = preferences],
                             hour, nearbyPOIs)
            IN  /\ other.immediate = Rec.immediate
                /\ other.nearby = Rec.nearby
                /\ other.categories = Rec.categories
                /\ other.tips = Rec.tips

\* a request with the preferences cafe and park whose nearby list has a bank
C16_Witness ==
    /\ Responded
    /\ userContext[1].preferences = Some(<<"cafe", "park">>)
    /\ \E j \in DOMAIN Rec.nearby : Rec.nearby[j].subcategory = Some("bank")
    /\ \E j \in DOMAIN Rec.immediate : Rec.immediate[j].subcategory = Some("cafe")

OptionalFields == {"subcategory", "description", "address", "website", "phone", "openingHours"}

\* an optional field is absent or holds a non-empty value
AbsentOrNonEmpty(poi) == \A f \in OptionalFields : poi[f] = None \/ poi[f][1] # ""

\* C17: for every POI emitted by either normalizer, each of subcategory,
\* description, address, website, phone and openingHours is absent or a
\* non-empty value: a missing or empty upstream attribute is never surfaced
\* as an empty string; and entries that lack optional upstream fields (tags,
\* class, type, extratags) are normalized without raising.
C17_OptionalAbsentOrNonEmpty ==
    /\ Parsed =>
          /\ \A j \in DOMAIN nearbyPOIs : AbsentOrNonEmpty(nearbyPOIs[j])
          /\ (\A i \in DOMAIN Elements : Elements[i] # None) =>
                \A i \in DOMAIN Elements :
                    (Get(TagsOf(Elements[i][1]), "name") \notin
                         {None, Some(""), Some("Unnamed Location")})
                        => \E j \in DOMAIN nearbyPOIs : nearbyPOIs[j].ref = i
    /\ (Searched /\ WellFormedHits) =>
          /\ Len(searchResults) = Len(Hits)
          /\ \A j \in DOMAIN searchResults : AbsentOrNonEmpty(searchResults[j])

\* call c has returned
Done(c) == calls[c].pc = "done"

ResultOf(c) == calls[c].result[1]

\* the address of the reverse-geocode record a call got, when it got one
\* and the record has one
AddressOf(reply) == IF reply = None THEN None ELSE reply[1].address

\* the address has the field, with a value
Present(address, k) == address # None /\ k \in DOMAIN address[1] /\ address[1][k] # ""

\* the label by the priority order suburb, neighbourhood, city
AreaLabel(address) ==
    IF Present(address, "suburb") THEN address[1]["suburb"]
    ELSE IF Present(address, "neighbourhood") THEN address[1]["neighbourhood"]
    ELSE IF Present(address, "city") THEN address[1]["city"]
    ELSE "Unknown Area"

\* C18: the analysis never fails and always yields an area label: the suburb
\* of the reverse-geocode address if present, else its neighbourhood, else its
\* city, else 'Unknown Area'; without a reverse-geocode record, or without an
\* address in it, the label is 'Unknown Area'.
C18_AreaLabelPriority ==
    \A c \in CallIds :
        Done(c) =>
            /\ calls[c].result # None
            /\ ResultOf(c).contextualInfo.area = AreaLabel(AddressOf(calls[c].reverseReply))
            /\ AddressOf(calls[c].reverseReply) = None
                  => ResultOf(c).contextualInfo.area = "Unknown Area"

\* one call whose address has a neighbourhood and a city but no suburb,
\* another whose reverse-geocode request failed
C18_Witness ==
    \E c, d \in CallIds :
        /\ Done(c) /\ Done(d)
        /\ calls[c].reverseReply # None
        /\ AddressOf(calls[c].reverseReply) # None
        /\ DOMAIN AddressOf(calls[c].reverseReply)[1] = {"neighbourhood", "city"}
        /\ ResultOf(c).contextualInfo.area = "Santa Maria"
        /\ calls[d].reverseReply = None
        /\ ResultOf(d).contextualInfo.area = "Unknown Area"

\* the number of nodes of an Overpass reply that carry a name
NamedNodes(reply) ==
    IF reply = None \/ reply[1].elements = None THEN 0
    ELSE Cardinality({i \in DOMAIN reply[1].elements[1] :
                         /\ reply[1].elements[1][i] # None
                         /\ ~Nameless(reply[1].elements[1][i][1])})

\* the result of a call is that of its own replies: the reverse-geocode
\* record it got, the label of that record, and the named nodes around its
\* own coordinates
OwnResult(c) ==
    /\ ResultOf(c).locationInfo = calls[c].reverseReply
    /\ ResultOf(c).contextualInfo.area = AreaLabel(AddressOf(calls[c].reverseReply))
    /\ Len(ResultOf(c).nearbyPOIs) = NamedNodes(calls[c].overpassReply)
    /\ \A j \in DOMAIN ResultOf(c).nearbyPOIs :
          /\ ResultOf(c).nearbyPOIs[j].lat = calls[c].coordinates.lat
          /\ ResultOf(c).nearbyPOIs[j].lon = calls[c].coordinates.lon

\* calls that got the same replies have the same result
SameRepliesSameResult ==
    \A c, d \in CallIds :
        (/\ Done(c) /\ Done(d)
         /\ calls[c].reverseReply = calls[d].reverseReply
         /\ calls[c].overpassReply = calls[d].overpassReply)
            => ResultOf(c) = ResultOf(d)

\* a step changes the locals of one call at most
OneCallPerStep ==
    \A c, d \in CallIds : (c # d /\ calls'[c] # calls[c]) => calls'[d] = calls[d]

\* C19: concurrent enrichLocationContext calls for different coordinates,
\* interleaved at their awaits in any order, do not interact: the result of
\* each call is determined by the replies to its own requests, and no step
\* of one call changes what another call holds.
C19_CallsDoNotInteract ==
    /\ [](\A c \in CallIds : Done(c) => OwnResult(c))
    /\ []SameRepliesSameResult
    /\ [][OneCallPerStep]_vars

\* the first call is still awaiting its Overpass reply when the second, which
\* got another reverse-geocode record, has returned with its own POI
C19_Witness ==
    /\ calls[1].pc = "overpass"
    /\ calls[1].locationInfo # None
    /\ Done(2)
    /\ calls[2].reverseReply # None
    /\ ResultOf(2).locationInfo = calls[2].reverseReply
    /\ ResultOf(2).locationInfo # calls[1].locationInfo
    /\ Len(ResultOf(2).nearbyPOIs) = 1

\* the name tag or the brand tag of a record has a non-empty value
HasUsableName(e) ==
    \/ Truthy(Get(TagsOf(e), "name"))
    \/ Truthy(Get(TagsOf(e), "brand"))

\* the name tag if it has a value, otherwise the brand tag
ResolvedName(e) ==
    IF Truthy(Get(TagsOf(e), "name")) THEN TagsOf(e)["name"] ELSE TagsOf(e)["brand"]

\* every entry of the response is a record
AllRecords == \A i \in DOMAIN Elements : Elements[i] # None

\* C20: every tagged-node record with a usable (non-empty) name tag or brand
\* tag yields exactly one POI, named by the name tag if present and otherwise
\* by the brand tag, and the POIs are in the upstream order of their records.
C20_NamedRecordEmitted ==
    (Parsed /\ AllRecords) =>
        /\ \A i \in DOMAIN Elements :
              HasUsableName(Elements[i][1]) =>
                  /\ Cardinality({j \in DOMAIN nearbyPOIs : nearbyPOIs[j].ref = i}) = 1
                  /\ \A j \in DOMAIN nearbyPOIs :
                        nearbyPOIs[j].ref = i => nearbyPOIs[j].name = ResolvedName(Elements[i][1])
        /\ \A j, k \in DOMAIN nearbyPOIs : j < k => nearbyPOIs[j].ref < nearbyPOIs[k].ref

MiddayHours == 11..14

AfternoonHours == 15..18

\* C21: at midday (hour 11..14), immediate is the first 3 dining POIs with
\* subcategory restaurant or fast_food, then the first 2 shopping POIs; the
\* categories are lunch, shopping, attractions.
C21_MiddayPolicy ==
    (Responded /\ hour \in MiddayHours) =>
        /\ Rec.immediate =
              FirstN(SelectSeq(BucketOf(nearbyPOIs, "restaurants"),
                               LAMBDA p : p.subcategory \in
                                   {Some("restaurant"), Some("fast_food")}), 3)
              \o FirstN(BucketOf(nearbyPOIs, "shopping"), 2)
        /\ Rec.categories = <<"lunch", "shopping", "attractions">>

\* noon: a supermarket listed before a fast-food place, immediate in the
\* other order
C21_Witness ==
    /\ Responded
    /\ hour = 12
    /\ Len(nearbyPOIs) = 2
    /\ nearbyPOIs[1].category = "shop"
    /\ nearbyPOIs[2].subcategory = Some("fast_food")
    /\ Rec.immediate = <<nearbyPOIs[2], nearbyPOIs[1]>>

\* C22: in the afternoon (hour 15..18), immediate is the first 3 attractions,
\* then the first 2 dining POIs with subcategory cafe; the categories are
\* attractions, coffee, culture.
C22_AfternoonPolicy ==
    (Responded /\ hour \in AfternoonHours) =>
        /\ Rec.immediate =
              FirstN(BucketOf(nearbyPOIs, "attractions"), 3)
              \o FirstN(SelectSeq(BucketOf(nearbyPOIs, "restaurants"),
                                  LAMBDA p : p.subcategory = Some("cafe")), 2)
        /\ Rec.categories = <<"attractions", "coffee", "culture">>

\* four museums and three cafes at 16 o'clock: three museums, then two cafes
C22_Witness ==
    /\ Responded
    /\ hour = 16
    /\ Len(nearbyPOIs) = 7
    /\ Cardinality({i \in 1..7 : nearbyPOIs[i].category = "tourism"}) = 4
    /\ Cardinality({i \in 1..7 : nearbyPOIs[i].subcategory = Some("cafe")}) = 3
    /\ nearbyPOIs[1].subcategory = Some("cafe")
    /\ Len(Rec.immediate) = 5
    /\ \A j \in 1..3 : Rec.immediate[j].category = "tourism"
    /\ \A j \in 4..5 : Rec.immediate[j].subcategory = Some("cafe")

TouristSuggestions ==
    <<"This appears to be a popular tourist area",
      "Consider visiting multiple attractions within walking distance">>

DiningSuggestion == "Great dining options in this area"

\* C23: with more than 5 amenity POIs of subcategory restaurant, cafe or bar,
\* cityType is 'commercial' whatever the tourism count, touristArea still
\* tells only whether more than 3 POIs are tourism POIs, and the dining
\* suggestion comes last, after the tourist suggestions if there are any;
\* with exactly 5 such POIs cityType is not 'commercial'.
C23_DiningOverridesCityType ==
    Enriched =>
        /\ DiningCount > 5 =>
              /\ Context.cityType = "commercial"
              /\ Context.touristArea <=> TourismCount > 3
              /\ Context.suggestions =
                    (IF TourismCount > 3 THEN TouristSuggestions ELSE <<>>)
                    \o <<DiningSuggestion>>
        /\ DiningCount = 5 => Context.cityType # "commercial"

\* six dining POIs and four tourism POIs: commercial, still a tourist area
C23_Witness ==
    /\ pc = "enriched"
    /\ DiningCount = 6
    /\ TourismCount = 4
    /\ Context.cityType = "commercial"
    /\ Context.touristArea
    /\ Len(Context.suggestions) = 3

\* C24: cityType is 'residential' exactly when neither threshold trips (at
\* most 3 tourism POIs and at most 5 dining POIs), and exactly then
\* suggestions is empty and touristArea false; cityType is always one of
\* residential, tourist, commercial.
C24_ResidentialIffNoThreshold ==
    Enriched =>
        /\ Context.cityType = "residential" <=> (TourismCount <= 3 /\ DiningCount <= 5)
        /\ Context.cityType = "residential" <=>
              (Context.suggestions = <<>> /\ ~Context.touristArea)
        /\ Context.cityType \in {"residential", "tourist", "commercial"}

\* three tourism POIs, five dining POIs and two pubs: residential, no
\* suggestions
C24_Witness ==
    /\ pc = "enriched"
    /\ TourismCount = 3
    /\ DiningCount = 5
    /\ Len(nearbyPOIs) = 10
    /\ Context.cityType = "residential"
    /\ Context.suggestions = <<>>
    /\ ~Context.touristArea

\* the tag has a non-empty value
TagSet(t, k) == k \in DOMAIN t /\ t[k] # ""

\* the strings of a list of at most four, separated by sep
Separated(parts, sep) ==
    CASE Len(parts) = 0 -> ""
      [] Len(parts) = 1 -> parts[1]
      [] Len(parts) = 2 -> parts[1] \o sep \o parts[2]
      [] Len(parts) = 3 -> parts[1] \o sep \o parts[2] \o sep \o parts[3]
      [] Len(parts) = 4 -> parts[1] \o sep \o parts[2] \o sep \o parts[3] \o sep \o parts[4]

\* what the tags cuisine, description and wikipedia contribute, in this order
DescriptionParts(t) ==
    (IF TagSet(t, "cuisine") THEN <<"Cuisine: " \o t["cuisine"]>> ELSE <<>>)
    \o (IF TagSet(t, "description") THEN <<t["description"]>> ELSE <<>>)
    \o (IF TagSet(t, "wikipedia") THEN <<"Has Wikipedia entry">> ELSE <<>>)

\* C25: the description of a tagged-node POI is built from its tags cuisine,
\* description and wikipedia in this order, of those that are present and
\* non-empty, joined with '. '; when none is, the description is absent and
\* not an empty string.
C25_DescriptionFromTags ==
    Parsed =>
        \A j \in DOMAIN nearbyPOIs :
            LET parts == DescriptionParts(nearbyPOIs[j].tags)
            IN  /\ nearbyPOIs[j].description =
                      (IF parts = <<>> THEN <<>> ELSE <<Separated(parts, ". ")>>)
                /\ nearbyPOIs[j].description # <<"">>

\* a POI with cuisine and wikipedia and an empty description tag
C25_Witness ==
    /\ Parsed
    /\ \E j \in DOMAIN nearbyPOIs :
          /\ TagOf(nearbyPOIs[j], "name") = Some("The Spot")
          /\ "description" \in DOMAIN nearbyPOIs[j].tags
          /\ nearbyPOIs[j].description = <<"Cuisine: italian. Has Wikipedia entry">>

\* the address tags with a value, in the order house number, street, city,
\* postcode
AddressParts(t) ==
    (IF TagSet(t, "addr:housenumber") THEN <<t["addr:housenumber"]>> ELSE <<>>)
    \o (IF TagSet(t, "addr:street") THEN <<t["addr:street"]>> ELSE <<>>)
    \o (IF TagSet(t, "addr:city") THEN <<t["addr:city"]>> ELSE <<>>)
    \o (IF TagSet(t, "addr:postcode") THEN <<t["addr:postcode"]>> ELSE <<>>)

\* C26: the address of a tagged-node POI is its address tags house number,
\* street, city and postcode, in this order, of those that are present, joined
\* with ', ' and without empty segments; when none is present the address is
\* absent.
C26_AddressFromTags ==
    Parsed =>
        \A j \in DOMAIN nearbyPOIs :
            LET parts == AddressParts(nearbyPOIs[j].tags)
            IN  nearbyPOIs[j].address =
                    (IF parts = <<>> THEN <<>> ELSE <<Separated(parts, ", ")>>)

\* a POI with house number, city and postcode but no street
C26_Witness ==
    /\ Parsed
    /\ \E j \in DOMAIN nearbyPOIs :
          /\ TagOf(nearbyPOIs[j], "name") = Some("The Spot")
          /\ "addr:street" \notin DOMAIN nearbyPOIs[j].tags
          /\ nearbyPOIs[j].address = <<"12, Rome, 00100">>

----------------------------------------------------------------------------
(* The VoiceInput component *)

\* a recording began and nothing was submitted since
NothingSentSinceRecording ==
    voice.log # <<>> /\ voice.log[Len(voice.log)] = "record"

\* a final transcript was captured and the recognizer ended by itself: no
\* Stop click and no recognition error ended it
EndedByItselfWithTranscript ==
    /\ voice.mounted
    /\ voice.finalTranscript # ""
    /\ voice.recognition = "ended"
    /\ NothingSentSinceRecording

\* C27: once a final transcript has been captured and speech recognition has
\* ended by itself (no Stop click), the component submits the transcript
\* automatically about 2 seconds later: in every such state whose transcript
\* is not yet submitted, the 2 s timer that submits it is pending.
C27_AutoSubmitAfterRecognitionEnds ==
    (EndedByItselfWithTranscript /\ voice.inFlight = None) => voice.timer

\* C28: a captured transcript is submitted at most once without user action:
\* after a failed submission the next thing the component does is never an
\* automatic submission (it is a Send Now click or a new recording).
C28_NoAutomaticResend ==
    \A i \in 1..(Len(voice.log) - 1) :
        voice.log[i] = "fail" => voice.log[i + 1] # "autoSend"

----------------------------------------------------------------------------
(* App.handleLocationUpdate *)

\* no nearby-POI request is in flight
NoRequestInFlight == \A r \in DOMAIN app.requests : app.requests[r].status # "pending"

\* the request of the most recent location update
LatestRequest == app.requests[Len(app.requests)]

\* the most recent location update got a response with at least one POI
LatestResponseNonEmpty ==
    /\ app.requests # <<>>
    /\ LatestRequest.status = "resolved"
    /\ LatestRequest.pois # None
    /\ LatestRequest.pois[1] # <<>>

\* C29: for any sequence of location updates and any arrival order of their
\* nearby-POI responses, once no request is in flight the map markers are
\* those returned for the most recent location update, when that latest
\* response is non-empty.
C29_LatestUpdateWins ==
    (NoRequestInFlight /\ LatestResponseNonEmpty) => app.mapMarkers = LatestRequest.pois[1]

----------------------------------------------------------------------------
(* POST /route *)

\* the request body carries a number in every coordinate of from and to
AllCoordinatesNumeric(body) ==
    /\ body.from # None /\ body.to # None
    /\ body.from[1].lat # None /\ body.from[1].lon # None
    /\ body.to[1].lat # None /\ body.to[1].lon # None

\* from and to are there, and a coordinate of one of them is missing
CoordinateMissing(body) ==
    /\ body.from # None /\ body.to # None
    /\ \/ body.from[1].lat = None \/ body.from[1].lon = None
       \/ body.to[1].lat = None \/ body.to[1].lon = None

\* C30: POST /route answers 400 'Invalid coordinates' only when a coordinate
\* of from or to is missing; every request whose from and to both carry
\* numeric lat and lon (the value 0 included) is answered with a route whose
\* coordinates are [from, to].
C30_NumericCoordinatesRouted ==
    route.pc = "responded" =>
        LET body == route.body[1]
            response == route.response[1]
        IN  /\ (response.status = 400 /\ response.error = "Invalid coordinates")
                  => CoordinateMissing(body)
            /\ AllCoordinatesNumeric(body)
                  => /\ response.status = 200
                     /\ response.route.coordinates = <<body.from[1], body.to[1]>>

=============================================================================
